---- MODULE Spec2Model ----
(***************************************************************************)
(* Model of the multi-agent consensus orchestration of the Quantum Fractal *)
(* AI editor: App.tsx (runEnhancedOrchestrator, assembleFinalAnswer, the   *)
(* UI entry points), services/geminiService.ts (the step runner) and       *)
(* utils/helpers.ts (digest, fractal hash, entropy, stripCodeBlock).       *)
(*                                                                         *)
(* Conventions.  JavaScript strings are TLA+ strings.  JavaScript is       *)
(* single threaded: one action is one macrotask (a UI event, a timer, a    *)
(* resolved digest or collaborator call) together with the microtasks it   *)
(* triggers.  React state is read as committed: a handler sees the state   *)
(* left by the previous action.  Floating point values are fixed point,    *)
(* scaled by 1000.  Wall-clock stamps of log entries and fragments are     *)
(* left out; Date.now() is kept where its text is hashed.                   *)
(***************************************************************************)
EXTENDS Integers, Sequences, FiniteSets, Bags, TLC

(***************************************************************************)
(* Bounds of the model.                                                    *)
(***************************************************************************)
\* number of orchestration runs started in one behaviour
MaxRuns == 2
\* agentCount is drawn from 2..MaxAgentCount
MaxAgentCount == 2
\* maxRounds is drawn from 1..MaxRoundsCfg
MaxRoundsCfg == 2
\* single-agent prompts sent in one behaviour
MaxSingleRequests == 1
\* rounds of all the runs started in one behaviour, taken together
MaxTotalRounds == 2
\* calls the collaborator rejects in one behaviour
MaxFailures == 1

(***************************************************************************)
(* Strings.                                                                *)
(***************************************************************************)
Min(a, b) == IF a < b THEN a ELSE b

\* String.prototype.substring(a, b) for 0 <= a <= b
Substring(s, a, b) == SubSeq(s, a + 1, Min(b, Len(s)))

\* s[i] for a 1-based index
CharAt(s, i) == SubSeq(s, i, i)

\* the printable ASCII characters in code order, code 32 first; the backtick
\* (code 96) cannot be written in a TLA+ string and is left out
Printable == " !\"#$%&'()*+,-./0123456789:;<=>?@ABCDEFGHIJKLMNOPQRSTUVWXYZ[\\]^_abcdefghijklmnopqrstuvwxyz{|}~"

AsciiTable == [i \in 1..Len(Printable) |-> CharAt(Printable, i)]

AsciiCodes == [c \in {AsciiTable[i] : i \in DOMAIN AsciiTable} |->
    LET i == CHOOSE k \in DOMAIN AsciiTable : AsciiTable[k] = c
    IN  IF i <= 64 THEN 31 + i ELSE 32 + i]

\* the backtick of a Markdown code fence is written "~" in the model's texts
Fence == "~~~"

\* the byte TextEncoder / btoa sees for one character of the model's texts
CharCode(c) == IF c \in DOMAIN AsciiCodes THEN AsciiCodes[c] ELSE 10

StartsWith(s, p) == Len(p) <= Len(s) /\ SubSeq(s, 1, Len(p)) = p

\* s.includes(p)
Includes(s, p) == \E i \in 1..(Len(s) - Len(p) + 1) : SubSeq(s, i, i + Len(p) - 1) = p

(***************************************************************************)
(* constants.ts                                                            *)
(***************************************************************************)
MAX_CONTEXT_LENGTH == 8000

DEFAULT_AGENT_COUNT == 5

DEFAULT_MAX_ROUNDS == 3

DEFAULT_REASONING_DEPTH == 3

INITIAL_EDITOR_CONTENT == "// Quantum Fractal AI Editor - Ready\n// Start coding or use the prompt below for AI assistance\n\nfunction welcome() {\n    return \"Welcome to the Quantum Fractal AI Editor!\";\n}"

REASONING_STRATEGIES == <<
    "Apply recursive optimization patterns",
    "Use quantum efficiency algorithms",
    "Implement fractal code structure",
    "Apply hyperthreaded reasoning",
    "Use entropy-based selection",
    "Apply mathematical transformation",
    "Implement parallel processing",
    "Use consensus validation",
    "Apply abstract syntax tree manipulation",
    "Implement heuristic code generation",
    "Use semantic code analysis",
    "Apply pattern recognition for refactoring",
    "Generate declarative programming structures",
    "Optimize for functional purity",
    "Implement aspect-oriented programming principles",
    "Utilize genetic algorithms for code evolution",
    "Employ symbolic execution for bug detection",
    "Transform imperative to functional paradigms",
    "Apply dependency graph optimization",
    "Integrate formal verification methods" >>

AgentType == {"nexus", "cognito", "relay", "sentinel", "echo"}

\* Object.values(AgentType), in declaration order
AgentTypeOrder == <<"nexus", "cognito", "relay", "sentinel", "echo">>

INITIAL_AGENTS_STATE == [t \in AgentType |->
    [content |-> CASE t = "nexus" -> "Idle. Awaiting quantum command."
                   [] t = "echo" -> "Awaiting assembly instructions..."
                   [] OTHER -> "Ready",
     log |-> <<>>,
     isActive |-> FALSE]]

(***************************************************************************)
(* utils/helpers.ts                                                        *)
(***************************************************************************)
HexDigits == "0123456789abcdef"

RECURSIVE DigestSum(_, _, _)
\* absorbs the characters lo..hi of s: every character counts, weighted by
\* its position (split in halves to keep the evaluation shallow)
DigestSum(s, lo, hi) ==
    IF lo > hi THEN 0
    ELSE IF lo = hi THEN CharCode(CharAt(s, lo)) * (((lo * lo + 3 * lo) % 251) + 1)
    ELSE LET mid == (lo + hi) \div 2
         IN  DigestSum(s, lo, mid) + DigestSum(s, mid + 1, hi)

\* the i-th hex digit squeezed out of the digest state x
DigestDigit(x, i) == CharAt(HexDigits, (((((x + 1) * (2 * i + 1)) + i * i) \div 7) % 16) + 1)

RECURSIVE DigestHex(_, _, _)
\* the hex digits lo..hi of the digest state x
DigestHex(x, lo, hi) ==
    IF lo > hi THEN ""
    ELSE IF lo = hi THEN DigestDigit(x, lo)
    ELSE LET mid == (lo + hi) \div 2
         IN  DigestHex(x, lo, mid) \o DigestHex(x, mid + 1, hi)

\* sha256(str): SHA-256 itself is replaced by a stand-in digest that keeps
\* its observable contract: a deterministic function of every character of
\* the input, rendered as 64 lowercase hex digits.
sha256(str) == DigestHex((DigestSum(str, 1, Len(str)) + 7 * Len(str) + 7) % 65521, 1, 64)

Base64Chars == "ABCDEFGHIJKLMNOPQRSTUVWXYZabcdefghijklmnopqrstuvwxyz0123456789+/"

Base64Char(n) == CharAt(Base64Chars, n + 1)

\* the four base64 characters of the g-th group of three bytes of s
Base64Group(s, g) ==
    LET n  == Len(s)
        p  == 3 * g - 2
        b1 == CharCode(CharAt(s, p))
        b2 == IF n >= p + 1 THEN CharCode(CharAt(s, p + 1)) ELSE 0
        b3 == IF n >= p + 2 THEN CharCode(CharAt(s, p + 2)) ELSE 0
    IN  Base64Char(b1 \div 4)
        \o Base64Char((b1 % 4) * 16 + (b2 \div 16))
        \o (IF n >= p + 1 THEN Base64Char((b2 % 16) * 4 + (b3 \div 64)) ELSE "=")
        \o (IF n >= p + 2 THEN Base64Char(b3 % 64) ELSE "=")

RECURSIVE Base64Groups(_, _, _)
\* the encoding of groups lo..hi of s, in order
Base64Groups(s, lo, hi) ==
    IF lo > hi THEN ""
    ELSE IF lo = hi THEN Base64Group(s, lo)
    ELSE LET mid == (lo + hi) \div 2
         IN  Base64Groups(s, lo, mid) \o Base64Groups(s, mid + 1, hi)

\* window.btoa: base64 of the bytes of s, three bytes to four characters
btoa(s) == Base64Groups(s, 1, (Len(s) + 2) \div 3)

RECURSIVE FractalInner(_, _)
\* the inner loop of generateFractalHash: j = 0..i, so times = i + 1 passes
FractalInner(current, times) ==
    IF times = 0 THEN current
    ELSE FractalInner(Substring(btoa(current), 0, 16), times - 1)

RECURSIVE FractalOuter(_, _, _)
\* the outer loop of generateFractalHash: hash += current for i = from..depth-1
FractalOuter(base, from, depth) ==
    IF from >= depth THEN ""
    ELSE FractalInner(base, from + 1) \o FractalOuter(base, from + 1, depth)

RECURSIVE PadStart(_, _)
\* s.padStart(n, "0")
PadStart(s, n) == IF Len(s) >= n THEN s ELSE PadStart("0" \o s, n)

\* Date.now().toString() when the clock of the model reads now: thirteen
\* digits, the clock counting the milliseconds since 1793800000000
DateNowText(now) == "17938" \o PadStart(ToString(now), 8)

\* a seeding hash that digests the whole of its seed and the time
FractalHashOfWholeSeed(agentName, depth, now) ==
    Substring(sha256(agentName \o DateNowText(now) \o ToString(depth)), 0, 32)

\* generateFractalHash(agentName, depth) called when Date.now() returns now
generateFractalHash(agentName, depth, now) ==
    LET base == agentName \o DateNowText(now)
    IN  Substring(btoa(FractalOuter(base, 0, depth)), 0, 32)

\* round(1000 * log2(n)) for n = 1..64
Log2Milli == <<
    0, 1000, 1585, 2000, 2322, 2585, 2807, 3000,
    3170, 3322, 3459, 3585, 3700, 3807, 3907, 4000,
    4087, 4170, 4248, 4322, 4392, 4459, 4524, 4585,
    4644, 4700, 4755, 4807, 4858, 4907, 4954, 5000,
    5044, 5087, 5129, 5170, 5209, 5248, 5285, 5322,
    5358, 5392, 5426, 5459, 5492, 5524, 5555, 5585,
    5615, 5644, 5672, 5700, 5728, 5755, 5781, 5807,
    5833, 5858, 5883, 5907, 5931, 5954, 5977, 6000 >>

RECURSIVE CharCounts(_, _, _)
\* charCounts: how often each character occurs in positions lo..hi of s
CharCounts(s, lo, hi) ==
    IF lo > hi THEN EmptyBag
    ELSE IF lo = hi THEN SetToBag({CharAt(s, lo)})
    ELSE LET mid == (lo + hi) \div 2
         IN  CharCounts(s, lo, mid) (+) CharCounts(s, mid + 1, hi)

RECURSIVE EntropySum(_, _, _)
\* sum over the distinct characters of count * (log2 length - log2 count)
EntropySum(charCounts, distinct, len) ==
    IF distinct = {} THEN 0
    ELSE LET c == CHOOSE x \in distinct : TRUE
             k == CopiesIn(c, charCounts)
         IN  k * (Log2Milli[len] - Log2Milli[k]) + EntropySum(charCounts, distinct \ {c}, len)

\* a measure that counts the distinct characters, in thousandths
DistinctCharacters(hash) == 1000 * Cardinality({CharAt(hash, i) : i \in 1..Len(hash)})

\* calculateEntropy(hash) in thousandths of a bit, for Len(hash) <= 64:
\* -sum p*log2(p) with p = count/length
calculateEntropy(hash) ==
    IF Len(hash) = 0 THEN 0
    ELSE LET charCounts == CharCounts(hash, 1, Len(hash))
         IN  EntropySum(charCounts, BagToSet(charCounts), Len(hash)) \div Len(hash)

\* Number.prototype.toFixed(3) of a value held in thousandths
toFixed3(m) ==
    LET f == m % 1000
    IN  ToString(m \div 1000) \o "." \o (IF f < 10 THEN "00" ELSE IF f < 100 THEN "0" ELSE "") \o ToString(f)

IsSpace(c) == c \in {" ", "\n", "\t"}

RECURSIVE TrimStart(_)
TrimStart(s) == IF Len(s) > 0 /\ IsSpace(CharAt(s, 1)) THEN TrimStart(SubSeq(s, 2, Len(s))) ELSE s

RECURSIVE TrimEnd(_)
TrimEnd(s) == IF Len(s) > 0 /\ IsSpace(CharAt(s, Len(s))) THEN TrimEnd(SubSeq(s, 1, Len(s) - 1)) ELSE s

\* String.prototype.trim
Trim(s) == TrimEnd(TrimStart(s))

WordChars == {CharAt("abcdefghijklmnopqrstuvwxyzABCDEFGHIJKLMNOPQRSTUVWXYZ0123456789_", i) : i \in 1..63}

\* \w of the regular expression
IsWordChar(c) == c \in WordChars

\* the position of the "\n" that ends the opening fence ~~~(?:\w+)?\n, or 0
FenceOpenEnd(t) ==
    IF ~StartsWith(t, Fence) THEN 0
    ELSE LET cands == {i \in 4..Len(t) : CharAt(t, i) = "\n" /\ \A j \in 4..(i - 1) : IsWordChar(CharAt(t, j))}
         IN  IF cands = {} THEN 0 ELSE CHOOSE i \in cands : TRUE

\* stripCodeBlock(content): /^~~~(?:\w+)?\n([\s\S]*?)\n~~~$/ on the trimmed
\* text; the body is returned trimmed when the match has a non-empty body
stripCodeBlock(content) ==
    LET trimmed == Trim(content)
        open    == FenceOpenEnd(trimmed)
        n       == Len(trimmed)
        matched == open > 0 /\ n - 4 >= open /\ SubSeq(trimmed, n - 3, n) = "\n" \o Fence
        body    == SubSeq(trimmed, open + 1, n - 4)
    IN  IF matched /\ Len(body) > 0 THEN Trim(body) ELSE trimmed

(***************************************************************************)
(* Inputs the environment supplies.                                        *)
(***************************************************************************)
\* the value Date.now() returns while invocation r of the run starts: time
\* moves on from one invocation to the next
Clock(r) == 1000 + r

\* texts the collaborator answers with
Responses == {Fence \o "js\nlet a = 1;\n" \o Fence}

\* ids generateEventId() returns
EventIds == {"event_lx3k2a9f7q"}

\* error messages the collaborator rejects a call with
Errors == {"Requested entity was not found.", "Quota exceeded"}

\* the quantum actions of the left panel
QuantumActions == {"optimize", "document", "refactor", "orchestrate"}

(***************************************************************************)
(* State.                                                                  *)
(***************************************************************************)
VARIABLES
    isGenerating,           \* QuantumAppState.isGenerating
    showOrchestrationPanel, \* QuantumAppState.showOrchestrationPanel
    consensusResult,        \* QuantumAppState.consensusResult: <<>> is null, <<c>> is c
    quantumConsensusCode,   \* QuantumAppState.quantumConsensusCode: <<>> is null
    agents,                 \* QuantumAppState.agents: the five display agents
    settings,               \* QuantumAppState.settings
    editorContent,          \* QuantumAppState.editorContent
    apiKey,                 \* process.env.API_KEY is set
    ai,                     \* GeminiService.ai is not null
    isConnected,            \* GeminiService.isConnected
    singleSent,             \* single-agent prompts sent so far
    singlePending,          \* single-agent generateGeminiContent calls in flight
    runCount,               \* invocations of runEnhancedOrchestrator that passed the guard
    roundsPlanned,          \* the maxRounds of those invocations, summed
    failures,               \* calls the collaborator has rejected so far
    runs,                   \* the local state of each such invocation
    turn,                   \* parity of the continuations of runs the event loop has resumed
    assemblerCall,          \* a call of assembleFinalAnswer on its own: arguments, values returned
    helperCall,             \* calls of a helper of helpers.ts on its own: arguments, values returned
    persistedCache,         \* localStorage[MEMORY_STORAGE_KEY] parsed: key -> entry
    quantumMemoryCache,     \* window.quantumMemoryCache: the keys it maps, each with its value
    storeCalls,             \* calls of memoryManager.store and retrieve: how many, the last arguments and values returned
    editorText,             \* Editor: editorRef.current.textContent
    historyStack,           \* Editor: historyStack.current
    redoStack,              \* Editor: redoStack.current
    debounceTimer,          \* Editor: debounceTimer.current is not null
    editorOps,              \* Editor: the operations so far, each with the text it left
    recentFiles,            \* QuantumAppState.recentFiles, newest first
    recentCalls             \* calls of memoryManager.addRecentFile: how many, the last arguments

vars == <<isGenerating, showOrchestrationPanel, consensusResult, quantumConsensusCode,
          agents, settings, editorContent, apiKey, ai, isConnected, singleSent,
          singlePending, runCount, roundsPlanned, failures, runs, turn, assemblerCall,
          helperCall, persistedCache, quantumMemoryCache, storeCalls, editorText,
          historyStack, redoStack, debounceTimer, editorOps, recentFiles, recentCalls>>

appVars == <<isGenerating, showOrchestrationPanel, consensusResult, quantumConsensusCode, agents>>

serviceVars == <<apiKey, ai, isConnected>>

\* the state of the App component, of the service and of the runs
sessionVars == <<appVars, settings, editorContent, serviceVars, singleSent, singlePending,
                 runCount, roundsPlanned, failures, runs, turn>>

\* the state of the memory manager's session cache
memoryVars == <<persistedCache, quantumMemoryCache, storeCalls>>

\* the state of the Editor component
editorVars == <<editorText, historyStack, redoStack, debounceTimer, editorOps>>

\* the recent files of the session
recentVars == <<recentFiles, recentCalls>>

\* what a step of the session leaves alone
harnessVars == <<assemblerCall, helperCall, memoryVars, editorVars, recentVars>>

RunIds == 1..MaxRuns

\* the locals of an invocation of runEnhancedOrchestrator that has not started
IdleRun == [
    pc             |-> "idle",   \* idle, genesis, round, assembly, done
    startedAt      |-> 0,        \* Date.now() read for the genesis hash
    editorContext  |-> "",
    agentCount     |-> 0,
    maxRounds      |-> 0,
    reasoningDepth |-> 0,
    genesisHash    |-> "",
    agents         |-> <<>>,     \* AgentInfo[]: [id, origin]
    round          |-> 0,
    step           |-> <<>>,     \* per agent: hashing, simulating, calling, done, failed
    allCandidates  |-> <<>>,     \* CandidateFragment[]
    consensus      |-> <<>>,     \* the local const consensus, once assembled
    error          |-> <<>> ]    \* the error the catch block received

Range(seq) == {seq[i] : i \in DOMAIN seq}

\* Once an invocation has returned and none of its steps is outstanding, its
\* locals are unreachable: only its outcome is kept.
Reclaim(run) ==
    IF run.pc = "done" /\ \A a \in DOMAIN run.step : run.step[a] \in {"done", "failed"}
    THEN [IdleRun EXCEPT !.pc = "done", !.error = run.error]
    ELSE run

(***************************************************************************)
(* App.tsx: the orchestration log and status display.                      *)
(***************************************************************************)
Spinner == "<div class=\"quantum-spinner\"></div>"

\* a log operation that keeps only the entry it writes
addLogOverwriting(ag, agentType, message, type) ==
    [ag EXCEPT ![agentType].log = <<[message |-> message, type |-> type]>>]

\* addLog(agentType, message, type) applied to the agents map ag
addLog(ag, agentType, message, type) ==
    [ag EXCEPT ![agentType].log = Append(@, [message |-> message, type |-> type])]

\* setAgentStatus(agentType, content, isActive = false) applied to ag
setAgentStatus(ag, agentType, content, isActive) ==
    [ag EXCEPT ![agentType].content = content, ![agentType].isActive = isActive]

\* the agents map runEnhancedOrchestrator installs at its start
ResetAgents == [t \in AgentType |-> [INITIAL_AGENTS_STATE[t] EXCEPT !.log = <<>>, !.isActive = FALSE]]

RECURSIVE ResetStatuses(_, _)
\* Object.values(AgentType).forEach(type => setAgentStatus(type, INITIAL_AGENTS_STATE[type].content, false))
ResetStatuses(ag, i) ==
    IF i > Len(AgentTypeOrder) THEN ag
    ELSE ResetStatuses(setAgentStatus(ag, AgentTypeOrder[i], INITIAL_AGENTS_STATE[AgentTypeOrder[i]].content, FALSE), i + 1)

\* the status text the catch block gives ECHO
ErrorStatus(message) == "<span class=\"text-error-color\">Error: " \o message \o "</span>"

\* the catch block of runEnhancedOrchestrator
CatchBlock(ag, message) ==
    LET a1 == addLog(ag, "echo", "<span style=\"color: #ff4444\">Orchestrator Error: " \o message \o "</span>", "info")
    IN  setAgentStatus(a1, "echo", ErrorStatus(message), FALSE)

\* a finally block that leaves out the forEach over the agent types
FinallyBlockWithoutReset(ag) ==
    setAgentStatus(ag, "nexus", "Enhanced orchestration complete", FALSE)

\* the finally block of runEnhancedOrchestrator, as far as it writes agents
FinallyBlock(ag) ==
    setAgentStatus(ResetStatuses(ag, 1), "nexus", "Enhanced orchestration complete", FALSE)

(***************************************************************************)
(* App.tsx: assembleFinalAnswer.                                           *)
(***************************************************************************)
\* the grouping key of a fragment
GroupKey(f) == Substring(f.candidate, 0, 100)

IsDigit(c) == c \in {"0", "1", "2", "3", "4", "5", "6", "7", "8", "9"}

\* k is a canonical array index: property keys of this form are enumerated
\* first, in ascending numeric order (keys of up to 9 digits are covered)
IsIndexKey(k) ==
    /\ Len(k) >= 1 /\ Len(k) <= 9
    /\ \A i \in 1..Len(k) : IsDigit(CharAt(k, i))
    /\ (Len(k) = 1 \/ CharAt(k, 1) # "0")

RECURSIVE ParseIndex(_, _)
\* the number an index key of n digits denotes
ParseIndex(k, n) ==
    IF n = 0 THEN 0
    ELSE 10 * ParseIndex(k, n - 1) + (CHOOSE d \in 0..9 : ToString(d) = CharAt(k, n))

RECURSIVE FirstSeenKeys(_, _)
\* the keys of the first i fragments in the order they were first created
FirstSeenKeys(frags, i) ==
    IF i = 0 THEN <<>>
    ELSE LET prev == FirstSeenKeys(frags, i - 1)
             k    == GroupKey(frags[i])
         IN  IF k \in Range(prev) THEN prev ELSE Append(prev, k)

RECURSIVE AscendingIndexKeys(_)
\* a set of index keys as a sequence in ascending numeric order
AscendingIndexKeys(ks) ==
    IF ks = {} THEN <<>>
    ELSE LET m == CHOOSE k \in ks : \A o \in ks : ParseIndex(k, Len(k)) <= ParseIndex(o, Len(o))
         IN  <<m>> \o AscendingIndexKeys(ks \ {m})

\* the key order of Object.entries(candidateGroups)
ObjectEntriesKeys(frags) ==
    LET seen == FirstSeenKeys(frags, Len(frags))
    IN  AscendingIndexKeys({k \in Range(seen) : IsIndexKey(k)})
        \o SelectSeq(seen, LAMBDA k : ~IsIndexKey(k))

RECURSIVE SumEntropy(_, _)
\* totalEntropy of the first i candidates of a group
SumEntropy(cands, i) == IF i = 0 THEN 0 ELSE SumEntropy(cands, i - 1) + cands[i].entropy

\* a scoring that counts the fragments of a group, not its distinct agents
ScoredGroupByFragments(frags, key) ==
    LET cands        == SelectSeq(frags, LAMBDA f : GroupKey(f) = key)
        totalEntropy == SumEntropy(cands, Len(cands))
        agentCount   == Len(cands)
        roundCount   == Cardinality({cands[i].round : i \in DOMAIN cands})
    IN  [key        |-> key,
         candidates |-> cands,
         score      |-> agentCount * 2000 + roundCount * 1500 + (3 * totalEntropy) \div Len(cands),
         agentCount |-> agentCount,
         roundCount |-> roundCount,
         avgEntropy |-> totalEntropy \div Len(cands)]

\* one element of scoredGroups
ScoredGroup(frags, key) ==
    LET cands        == SelectSeq(frags, LAMBDA f : GroupKey(f) = key)
        totalEntropy == SumEntropy(cands, Len(cands))
        agentCount   == Cardinality({cands[i].agentId : i \in DOMAIN cands})
        roundCount   == Cardinality({cands[i].round : i \in DOMAIN cands})
    IN  [key        |-> key,
         candidates |-> cands,
         score      |-> agentCount * 2000 + roundCount * 1500 + (3 * totalEntropy) \div Len(cands),
         agentCount |-> agentCount,
         roundCount |-> roundCount,
         avgEntropy |-> totalEntropy \div Len(cands)]

RECURSIVE InsertAscending(_, _)
\* g put into a sequence sorted by ascending score, after its equals
InsertAscending(sorted, g) ==
    IF sorted = <<>> THEN <<g>>
    ELSE IF g.score < Head(sorted).score THEN <<g>> \o sorted
    ELSE <<Head(sorted)>> \o InsertAscending(Tail(sorted), g)

RECURSIVE InsertByScore(_, _)
\* g put into a sequence sorted by descending score, after its equals
InsertByScore(sorted, g) ==
    IF sorted = <<>> THEN <<g>>
    ELSE IF g.score > Head(sorted).score THEN <<g>> \o sorted
    ELSE <<Head(sorted)>> \o InsertByScore(Tail(sorted), g)

\* scoredGroups in the order Object.entries gave them
EntriesOrder(groups, i) == groups

RECURSIVE SortByScore(_, _)
\* scoredGroups.sort((a, b) => b.score - a.score), a stable sort
SortByScore(groups, i) ==
    IF i = 0 THEN <<>> ELSE InsertByScore(SortByScore(groups, i - 1), groups[i])

\* the first candidate of a group
FirstCandidate(cands, i) == cands[1]

RECURSIVE RootCandidate(_, _)
\* candidates.reduce((best, current) => current.entropy > best.entropy ? current : best)
RootCandidate(cands, i) ==
    IF i = 1 THEN cands[1]
    ELSE LET best == RootCandidate(cands, i - 1)
         IN  IF cands[i].entropy > best.entropy THEN cands[i] ELSE best

\* a result for no candidates that names no root agent
ResultWithoutRootAgent(genesis) ==
    [genesis |-> genesis,
     selectedCandidate |-> "// No valid candidates were generated by the agents.",
     score |-> "0", agentCount |-> 0, roundCount |-> 0, avgEntropy |-> "0",
     rootAgent |-> "", rootEntropy |-> "0", allGroups |-> <<>>]

\* the result returned when scoredGroups is empty
NoCandidatesResult(genesis) ==
    [genesis |-> genesis,
     selectedCandidate |-> "// No valid candidates were generated by the agents.",
     score |-> "0", agentCount |-> 0, roundCount |-> 0, avgEntropy |-> "0",
     rootAgent |-> "N/A", rootEntropy |-> "0", allGroups |-> <<>>]

\* the properties candidateGroups = {} inherits from Object.prototype: for
\* such a key candidateGroups[key] is not falsy although no group was created
InheritedKeys == {"constructor", "__defineGetter__", "__defineSetter__", "hasOwnProperty",
                  "__lookupGetter__", "__lookupSetter__", "isPrototypeOf", "propertyIsEnumerable",
                  "toString", "valueOf", "__proto__", "toLocaleString"}

\* the TypeError of candidateGroups[key].candidates.push(candidate) when
\* candidateGroups[key] is an inherited property, which has no candidates
PushOfUndefined == [error |-> "Cannot read properties of undefined (reading 'push')"]

\* the call ended by throwing
Threw(result) == "error" \in DOMAIN result

\* the grouping loop meets a fragment whose key is an inherited property
MeetsInheritedKey(allCandidates) ==
    \E i \in DOMAIN allCandidates : GroupKey(allCandidates[i]) \in InheritedKeys

\* an assembler that stamps its result with the calls made before it
AssembleStamped(allCandidates, genesis) ==
    [genesis |-> genesis \o ToString(Len(assemblerCall.returned)),
     selectedCandidate |-> "", score |-> "0", agentCount |-> 0, roundCount |-> 0,
     avgEntropy |-> "0", rootAgent |-> "N/A", rootEntropy |-> "0", allGroups |-> <<>>]

assembleFinalAnswer(allCandidates, genesis) ==
    LET keys         == ObjectEntriesKeys(allCandidates)
        scoredGroups == [i \in DOMAIN keys |-> ScoredGroup(allCandidates, keys[i])]
        sorted       == SortByScore(scoredGroups, Len(scoredGroups))
        topGroup     == sorted[1]
        root         == RootCandidate(topGroup.candidates, Len(topGroup.candidates))
    IN  IF MeetsInheritedKey(allCandidates) THEN PushOfUndefined
        ELSE IF Len(scoredGroups) = 0
        THEN NoCandidatesResult(genesis)
        ELSE [genesis |-> genesis,
              selectedCandidate |-> topGroup.candidates[1].candidate,
              score |-> toFixed3(topGroup.score),
              agentCount |-> topGroup.agentCount,
              roundCount |-> topGroup.roundCount,
              avgEntropy |-> toFixed3(topGroup.avgEntropy),
              rootAgent |-> root.agentId,
              rootEntropy |-> toFixed3(root.entropy),
              allGroups |-> sorted]

(***************************************************************************)
(* services/geminiService.ts: runOrchestrationAgentStep.                   *)
(***************************************************************************)
\* agent.id.replace('-', '_'): the first "-" becomes "_"
ReplaceDash(id) ==
    LET hits == {i \in 1..Len(id) : CharAt(id, i) = "-"}
    IN  IF hits = {} THEN id
        ELSE LET p == CHOOSE i \in hits : \A j \in hits : i <= j
             IN  SubSeq(id, 1, p - 1) \o "_" \o SubSeq(id, p + 1, Len(id))

\* a simulated text that does not name the agent it is returned for
SimulatedWithoutId(agent) ==
    "// SIMULATED RESPONSE"
    \o "\nfunction simulated_task() {"
    \o "\n    console.log(\"This is a simulated response due to lack of AI connection.\");\n}"

\* the text the degraded branch returns
SimulatedResponse(agent) ==
    "// SIMULATED RESPONSE for Agent " \o agent.id
    \o "\nfunction simulated_task_for_" \o ReplaceDash(agent.id) \o "() {"
    \o "\n    console.log(\"This is a simulated response due to lack of AI connection.\");\n}"

\* REASONING_STRATEGIES[(round * reasoningDepth) % REASONING_STRATEGIES.length]
Strategy(round, reasoningDepth) ==
    REASONING_STRATEGIES[((round * reasoningDepth) % Len(REASONING_STRATEGIES)) + 1]

\* a truncation that keeps the head of the context only
TruncatedToHead(context) == Substring(context, 0, MAX_CONTEXT_LENGTH)

\* the context embedded in the prompt
TruncatedContext(context) ==
    IF Len(context) > MAX_CONTEXT_LENGTH
    THEN LET half == MAX_CONTEXT_LENGTH \div 2
         IN  Substring(context, 0, half)
             \o "\n\n// ... [CODE TRUNCATED FOR BREVITY] ...\n\n"
             \o Substring(context, Len(context) - half, Len(context))
    ELSE context

\* the text the connected branch returns for the collaborator's response
AgentResponse(agent, round, reasoningDepth, responseText) ==
    "// Agent: " \o agent.id \o " | Round: " \o ToString(round + 1)
    \o " | Strategy: " \o Strategy(round, reasoningDepth)
    \o "\n// Seed: " \o Substring(agent.origin, 0, 12)
    \o " | Entropy: " \o toFixed3(calculateEntropy(agent.origin))
    \o "\n" \o stripCodeBlock(responseText)

\* assembleFinalAnswer has not been called on its own
NoCall == [allCandidates |-> <<>>, genesis |-> "", returned |-> <<>>]

\* no helper has been called on its own
NoHelperCall == [fn |-> "", text |-> "", depth |-> 0, now |-> 0, returned |-> <<>>]

\* the Editor as its first effect leaves it: the history holds the content
\* it was given, nothing to redo, no input pending
EditorMounted ==
    /\ editorText = editorContent
    /\ historyStack = <<editorContent>>
    /\ redoStack = <<>>
    /\ debounceTimer = FALSE
    /\ editorOps = <<>>

\* the recent files of a fresh browser profile: loadRecentFiles() finds
\* nothing stored and returns []
NoRecentFiles ==
    /\ recentFiles = <<>>
    /\ recentCalls = [count |-> 0, filename |-> "", content |-> ""]

\* the session cache of a fresh browser profile, before any store
FreshMemory ==
    /\ persistedCache = <<>>
    /\ quantumMemoryCache = {}
    /\ storeCalls = [count |-> 0, irregular |-> 0, returned |-> <<>>,
                     key |-> "", data |-> "", retrieved |-> <<>>]

(***************************************************************************)
(* Initial state: App mounted, GeminiService constructed.                  *)
(***************************************************************************)
Init ==
    /\ isGenerating = FALSE
    /\ showOrchestrationPanel = FALSE
    /\ consensusResult = <<>>
    /\ quantumConsensusCode = <<>>
    /\ agents = INITIAL_AGENTS_STATE
    /\ settings \in [multiAgentMode : BOOLEAN,
                     agentCount : 2..MaxAgentCount,
                     maxRounds : 1..MaxRoundsCfg,
                     reasoningDepth : {DEFAULT_REASONING_DEPTH}]
    /\ editorContent = INITIAL_EDITOR_CONTENT
    /\ apiKey \in BOOLEAN
    /\ ai = apiKey
    /\ isConnected = apiKey
    /\ singleSent = 0
    /\ singlePending = 0
    /\ turn = 0
    /\ runCount = 0
    /\ roundsPlanned = 0
    /\ failures = 0
    /\ runs = [r \in RunIds |-> IdleRun]
    /\ assemblerCall = NoCall
    /\ helperCall = NoHelperCall
    /\ FreshMemory
    /\ EditorMounted
    /\ NoRecentFiles

(***************************************************************************)
(* App.tsx: runEnhancedOrchestrator.                                       *)
(***************************************************************************)
\* the guard of runEnhancedOrchestrator
RunGuard == ~isGenerating

\* runEnhancedOrchestrator up to its first suspension: the guard, the reset
\* of the display, the first log entry and the genesis digest being requested
runEnhancedOrchestrator ==
    /\ RunGuard
    /\ runCount < MaxRuns
    /\ roundsPlanned + settings.maxRounds <= MaxTotalRounds
    /\ settings.agentCount <= MaxAgentCount
    /\ LET r  == runCount + 1
            now == Clock(r)
            a1 == setAgentStatus(ResetAgents, "nexus", Spinner \o "Starting enhanced quantum orchestration...", TRUE)
            a2 == addLog(a1, "nexus", "Generating genesis hash from current code...", "genesis")
        IN  /\ isGenerating' = TRUE
            /\ showOrchestrationPanel' = TRUE
            /\ consensusResult' = <<>>
            /\ agents' = a2
            /\ runCount' = r
            /\ roundsPlanned' = roundsPlanned + settings.maxRounds
            /\ runs' = [runs EXCEPT ![r] = [IdleRun EXCEPT
                            !.pc = "genesis",
                            !.startedAt = now,
                            !.editorContext = editorContent,
                            !.agentCount = settings.agentCount,
                            !.maxRounds = settings.maxRounds,
                            !.reasoningDepth = settings.reasoningDepth]]
    /\ UNCHANGED <<turn, harnessVars>>
    /\ UNCHANGED <<quantumConsensusCode, settings, editorContent, serviceVars, singleSent, failures, singlePending>>

\* a map that reaches the first agent only
IssueFirstStep(run) == [i \in 1..1 |-> "hashing"]

\* agents.map(async (agent, index) => ...) up to each callback's first await:
\* every agent's rotation digest is requested in the same synchronous pass
IssueSteps(run) == [i \in 1..Len(run.agents) |-> "hashing"]

\* the loop test of the round loop, and what follows it: the start of round
\* `round` (log, status, all steps issued) or the start of assembly
EnterRound(r, run, ag, round) ==
    IF round < run.maxRounds
    THEN LET a1 == addLog(ag, "relay", Spinner \o "Round " \o ToString(round + 1) \o "/" \o ToString(run.maxRounds) \o "...", "info")
             a2 == setAgentStatus(a1, "relay", "Processing round " \o ToString(round + 1) \o " with " \o ToString(run.agentCount) \o " agents...", TRUE)
         IN  /\ agents' = a2
             /\ UNCHANGED isGenerating
             /\ runs' = [runs EXCEPT ![r] = [run EXCEPT !.pc = "round", !.round = round, !.step = IssueSteps(run)]]
    ELSE LET a1 == addLog(ag, "sentinel", Spinner \o "Assembling final consensus...", "info")
             a2 == setAgentStatus(a1, "sentinel", "Evaluating " \o ToString(Len(run.allCandidates)) \o " fragments for consensus...", TRUE)
             consensus == assembleFinalAnswer(run.allCandidates, run.genesisHash)
             a3 == setAgentStatus(a2, "echo", Spinner \o "Reassembling script from consensus...", TRUE)
             a4 == addLog(a3, "echo", "Assembly started. Verified Genesis: " \o Substring(consensus.genesis, 0, 12) \o "...", "consensus")
         IN  IF Threw(consensus)
             THEN /\ agents' = FinallyBlock(CatchBlock(a2, consensus.error))
                  /\ isGenerating' = FALSE
                  /\ runs' = [runs EXCEPT ![r] = Reclaim([run EXCEPT !.pc = "done", !.round = round, !.error = <<consensus.error>>])]
             ELSE /\ agents' = a4
                  /\ UNCHANGED isGenerating
                  /\ runs' = [runs EXCEPT ![r] = [run EXCEPT !.pc = "assembly", !.round = round, !.consensus = <<consensus>>]]

RECURSIVE LogOrigins(_, _, _)
\* the origin log entries of the seeding loop for the first i agents
LogOrigins(ag, seeded, i) ==
    IF i = 0 THEN ag
    ELSE addLog(LogOrigins(ag, seeded, i - 1), "nexus",
                seeded[i].id \o ": " \o Substring(seeded[i].origin, 0, 12) \o "...", "origin")

\* the genesis digest resolves: genesis logged, agents seeded, event logged,
\* round 0 started
GenesisComputed(r) ==
    /\ runs[r].pc = "genesis"
    /\ \E eventId \in EventIds :
        LET run         == runs[r]
            now         == Clock(r)
            genesisHash == sha256("GENESIS" \o DateNowText(run.startedAt) \o run.editorContext)
            a1 == addLog(agents, "nexus", "Genesis: " \o Substring(genesisHash, 0, 16) \o "...", "genesis")
            a2 == addLog(a1, "nexus", "Generating origin hashes for agents...", "origin")
            seeded == [i \in 1..run.agentCount |->
                          LET agentId == "agent-" \o ToString(i - 1)
                          IN  [id |-> agentId,
                               origin |-> generateFractalHash(genesisHash \o agentId, DEFAULT_REASONING_DEPTH, now)]]
            a3 == LogOrigins(a2, seeded, Len(seeded))
            a4 == addLog(a3, "nexus", "Creating event log entry...", "event")
            a5 == addLog(a4, "nexus", "Event: " \o eventId \o " logged", "event")
            a6 == setAgentStatus(a5, "cognito", Spinner \o "Spawning " \o ToString(run.agentCount) \o " fractal agents...", TRUE)
        IN  EnterRound(r, [run EXCEPT !.genesisHash = genesisHash, !.agents = seeded], a6, 0)
    /\ turn' = 1 - turn
    /\ UNCHANGED harnessVars
    /\ UNCHANGED <<showOrchestrationPanel, consensusResult, quantumConsensusCode,
                   settings, editorContent, serviceVars, singleSent, failures, singlePending, runCount, roundsPlanned>>

\* a step runner without its degraded branch
NeverDegraded == FALSE

\* the degraded branch of runOrchestrationAgentStep is taken
Degraded == ~ai

\* a rotation that also absorbs how many fragments the run has collected
NewOriginFromProgress(run, a) ==
    sha256(run.agents[a].origin \o run.genesisHash \o ToString(Len(run.allCandidates)))

\* sha256(agent.origin + genesisHash + round.toString())
NewOrigin(run, a) ==
    sha256(run.agents[a].origin \o run.genesisHash \o ToString(run.round))

\* agent a's rotation digest resolves: the origin is rotated and the step
\* runner is called; it waits for its timer (degraded) or for the collaborator
StepHashed(r, a) ==
    /\ a \in DOMAIN runs[r].step
    /\ runs[r].step[a] = "hashing"
    /\ LET run       == runs[r]
           newOrigin == NewOrigin(run, a)
       IN  runs' = [runs EXCEPT ![r].agents[a].origin = newOrigin,
                                ![r].step[a] = IF Degraded THEN "simulating" ELSE "calling"]
    /\ turn' = 1 - turn
    /\ UNCHANGED harnessVars
    /\ UNCHANGED <<appVars, settings, editorContent, serviceVars, singleSent, failures, singlePending, runCount, roundsPlanned>>

\* a map callback that records the genesis hash, and its entropy, in place
\* of the origin its agent was rotated to
CollectFragmentOfGenesis(r, a, candidateContent) ==
    LET run      == runs[r]
        agent    == run.agents[a]
        fragment == [agentId   |-> agent.id,
                     origin    |-> run.genesisHash,
                     round     |-> run.round,
                     candidate |-> candidateContent,
                     entropy   |-> calculateEntropy(run.genesisHash)]
    IN  /\ agents' = addLog(agents, "sentinel",
                            "Fragment from " \o agent.id \o " (round " \o ToString(run.round + 1) \o ")", "fragment")
        /\ runs' = [runs EXCEPT ![r] = Reclaim([run EXCEPT !.allCandidates = Append(@, fragment), !.step[a] = "done"])]

\* a map callback that files its fragment by agent index within the round
CollectFragmentByIndex(r, a, candidateContent) ==
    LET run      == runs[r]
        agent    == run.agents[a]
        fragment == [agentId   |-> agent.id,
                     origin    |-> agent.origin,
                     round     |-> run.round,
                     candidate |-> candidateContent,
                     entropy   |-> calculateEntropy(agent.origin)]
        Earlier(f) == \/ f.round < run.round
                      \/ (CHOOSE i \in DOMAIN run.agents : run.agents[i].id = f.agentId) < a
    IN  /\ agents' = addLog(agents, "sentinel",
                            "Fragment from " \o agent.id \o " (round " \o ToString(run.round + 1) \o ")", "fragment")
        /\ runs' = [runs EXCEPT ![r] = Reclaim([run EXCEPT
                        !.allCandidates = SelectSeq(@, Earlier) \o <<fragment>> \o SelectSeq(@, LAMBDA f : ~Earlier(f)),
                        !.step[a] = "done"])]

\* the rest of the map callback once the step runner has returned candidateContent
CollectFragment(r, a, candidateContent) ==
    LET run      == runs[r]
        agent    == run.agents[a]
        fragment == [agentId   |-> agent.id,
                     origin    |-> agent.origin,
                     round     |-> run.round,
                     candidate |-> candidateContent,
                     entropy   |-> calculateEntropy(agent.origin)]
    IN  /\ agents' = addLog(agents, "sentinel",
                            "Fragment from " \o agent.id \o " (round " \o ToString(run.round + 1) \o ")", "fragment")
        /\ runs' = [runs EXCEPT ![r] = Reclaim([run EXCEPT !.allCandidates = Append(@, fragment), !.step[a] = "done"])]

\* the timer of the degraded branch fires: the simulated text is returned
StepSimulated(r, a) ==
    /\ a \in DOMAIN runs[r].step
    /\ runs[r].step[a] = "simulating"
    /\ CollectFragment(r, a, SimulatedResponse(runs[r].agents[a]))
    /\ turn' = 1 - turn
    /\ UNCHANGED harnessVars
    /\ UNCHANGED <<isGenerating, showOrchestrationPanel, consensusResult, quantumConsensusCode,
                   settings, editorContent, serviceVars, singleSent, failures, singlePending, runCount, roundsPlanned>>

\* the collaborator answers agent a's call
StepResponded(r, a) ==
    /\ a \in DOMAIN runs[r].step
    /\ runs[r].step[a] = "calling"
    /\ \E responseText \in Responses :
        CollectFragment(r, a, AgentResponse(runs[r].agents[a], runs[r].round, runs[r].reasoningDepth, responseText))
    /\ turn' = 1 - turn
    /\ UNCHANGED harnessVars
    /\ UNCHANGED <<isGenerating, showOrchestrationPanel, consensusResult, quantumConsensusCode,
                   settings, editorContent, serviceVars, singleSent, failures, singlePending, runCount, roundsPlanned>>

\* the service's catch blocks: a "not found" rejection marks it disconnected
MarkDisconnected(message) ==
    isConnected' = IF Includes(message, "Requested entity was not found.") THEN FALSE ELSE isConnected

\* the collaborator rejects agent a's call: the step runner rethrows, and if
\* Promise.all has not settled yet it rejects, which runs the catch block and
\* the finally block of the run
StepRejected(r, a) ==
    /\ a \in DOMAIN runs[r].step
    /\ runs[r].step[a] = "calling"
    /\ failures < MaxFailures
    /\ failures' = failures + 1
    /\ \E message \in Errors :
        /\ MarkDisconnected(message)
        /\ IF runs[r].pc = "round"
           THEN /\ agents' = FinallyBlock(CatchBlock(agents, message))
                /\ isGenerating' = FALSE
                /\ runs' = [runs EXCEPT ![r] = Reclaim([@ EXCEPT !.step[a] = "failed", !.pc = "done", !.error = <<message>>])]
           ELSE /\ runs' = [runs EXCEPT ![r] = Reclaim([@ EXCEPT !.step[a] = "failed"])]
                /\ UNCHANGED <<agents, isGenerating>>
    /\ turn' = 1 - turn
    /\ UNCHANGED harnessVars
    /\ UNCHANGED <<showOrchestrationPanel, consensusResult, quantumConsensusCode,
                   settings, editorContent, apiKey, ai, singleSent, singlePending, runCount, roundsPlanned>>

\* a barrier that Promise.race would give: one finished step is enough
RoundBarrierOnAnyStep(r) ==
    /\ runs[r].pc = "round"
    /\ \E a \in DOMAIN runs[r].step : runs[r].step[a] = "done"
    /\ EnterRound(r, runs[r], agents, runs[r].round + 1)
    /\ turn' = 1 - turn
    /\ UNCHANGED harnessVars
    /\ UNCHANGED <<showOrchestrationPanel, consensusResult, quantumConsensusCode,
                   settings, editorContent, serviceVars, singleSent, failures, singlePending, runCount, roundsPlanned>>

\* Promise.all(roundPromises) has resolved and the pause after the round is
\* over: the next round starts, or assembly does
RoundBarrier(r) ==
    /\ runs[r].pc = "round"
    /\ \A a \in DOMAIN runs[r].step : runs[r].step[a] = "done"
    /\ EnterRound(r, runs[r], agents, runs[r].round + 1)
    /\ turn' = 1 - turn
    /\ UNCHANGED harnessVars
    /\ UNCHANGED <<showOrchestrationPanel, consensusResult, quantumConsensusCode,
                   settings, editorContent, serviceVars, singleSent, failures, singlePending, runCount, roundsPlanned>>

\* the rest of the try block and the finally block: the reassembly log (its
\* three pauses and the digest of the selected text are taken in one step),
\* the result published, the display reset, the flag cleared
AssemblyDone(r) ==
    /\ runs[r].pc = "assembly"
    /\ LET run       == runs[r]
           consensus == run.consensus[1]
           a1 == addLog(agents, "echo", "Selected candidate from Agent " \o consensus.rootAgent
                            \o " with score " \o consensus.score \o ".", "consensus")
           a2 == addLog(a1, "echo", "Verified final code hash: "
                            \o Substring(sha256(consensus.selectedCandidate), 0, 12) \o "...", "consensus")
           a3 == addLog(a2, "echo", "Reassembly complete. Quantum script generated.", "consensus")
       IN  /\ agents' = FinallyBlock(a3)
           /\ consensusResult' = <<consensus>>
           /\ quantumConsensusCode' = <<consensus.selectedCandidate>>
           /\ isGenerating' = FALSE
           /\ runs' = [runs EXCEPT ![r] = Reclaim([run EXCEPT !.pc = "done"])]
    /\ turn' = 1 - turn
    /\ UNCHANGED harnessVars
    /\ UNCHANGED <<showOrchestrationPanel, settings, editorContent, serviceVars, singleSent, failures, singlePending, runCount, roundsPlanned>>

(***************************************************************************)
(* App.tsx: the entry points of the surrounding UI.                        *)
(***************************************************************************)
\* the header's Orchestrator button, disabled while generating or in single-agent mode
OrchestratorButton ==
    /\ ~isGenerating
    /\ settings.multiAgentMode
    /\ runEnhancedOrchestrator

\* handleQuantumAction(action), from the left panel's quantum action buttons
handleQuantumAction ==
    \E action \in QuantumActions :
        /\ settings.multiAgentMode
        /\ runEnhancedOrchestrator

\* the finally handler of the single-agent request, after its then or catch handler
SingleFinally(ag) ==
    /\ isGenerating' = FALSE
    /\ agents' = setAgentStatus(ag, "nexus", INITIAL_AGENTS_STATE["nexus"].content, FALSE)

\* the catch handler of the single-agent request
SingleCatch(ag, message) ==
    LET a1 == addLog(ag, "echo", "Single agent error: " \o message, "info")
        a2 == setAgentStatus(a1, "echo", "<span class=\"text-error-color\">Error: " \o message \o "</span>", FALSE)
    IN  setAgentStatus(a2, "nexus", "Single agent task failed", FALSE)

\* handleSendPrompt with a non-empty prompt (the prompt input and its buttons
\* are disabled while generating)
handleSendPrompt ==
    /\ ~isGenerating
    /\ \/ /\ settings.multiAgentMode
          /\ runEnhancedOrchestrator
       \/ /\ ~settings.multiAgentMode
          /\ singleSent < MaxSingleRequests
          /\ singleSent' = singleSent + 1
          /\ showOrchestrationPanel' = TRUE
          /\ LET a1 == setAgentStatus(agents, "nexus", Spinner \o "Sending prompt to single agent...", TRUE)
             IN  IF ai
                 THEN /\ agents' = a1
                      /\ singlePending' = singlePending + 1
                      /\ UNCHANGED isGenerating
                 ELSE /\ SingleFinally(SingleCatch(a1, "Gemini service is not initialized. API key might be missing."))
                      /\ UNCHANGED singlePending
          /\ UNCHANGED <<turn, harnessVars>>
          /\ UNCHANGED <<consensusResult, quantumConsensusCode, settings, editorContent, serviceVars,
                         runCount, roundsPlanned, failures, runs>>

\* the single-agent request resolves
SingleResolved ==
    /\ singlePending > 0
    /\ singlePending' = singlePending - 1
    /\ \E response \in Responses :
        LET a1 == setAgentStatus(agents, "echo", response, FALSE)
            a2 == addLog(a1, "echo", "Single agent response received.", "consensus")
            a3 == setAgentStatus(a2, "nexus", "Single agent task complete", FALSE)
        IN  SingleFinally(a3)
    /\ UNCHANGED <<turn, harnessVars>>
    /\ UNCHANGED <<showOrchestrationPanel, consensusResult, quantumConsensusCode, settings,
                   editorContent, serviceVars, singleSent, failures, runCount, roundsPlanned, runs>>

\* the single-agent request is rejected
SingleRejected ==
    /\ singlePending > 0
    /\ failures < MaxFailures
    /\ failures' = failures + 1
    /\ singlePending' = singlePending - 1
    /\ \E message \in Errors :
        /\ MarkDisconnected(message)
        /\ SingleFinally(SingleCatch(agents, message))
    /\ UNCHANGED <<turn, harnessVars>>
    /\ UNCHANGED <<showOrchestrationPanel, consensusResult, quantumConsensusCode, settings,
                   editorContent, apiKey, ai, singleSent, runCount, roundsPlanned, runs>>

\* the Rerun Orchestration button of the consensus panel
onRerunOrchestration ==
    /\ showOrchestrationPanel
    /\ consensusResult # <<>>
    /\ runEnhancedOrchestrator

\* handleSettingChange('multiAgentMode', checked)
ToggleMultiAgentMode ==
    /\ settings' = [settings EXCEPT !.multiAgentMode = ~@]
    /\ UNCHANGED <<turn, harnessVars>>
    /\ UNCHANGED <<appVars, editorContent, serviceVars, singleSent, failures, singlePending, runCount, roundsPlanned, runs>>

RECURSIVE LeadingDigits(_, _)
\* how many of the characters of s from position i on are digits, up to the
\* first that is not
LeadingDigits(s, i) ==
    IF i <= Len(s) /\ IsDigit(CharAt(s, i)) THEN 1 + LeadingDigits(s, i + 1) ELSE 0

\* parseInt(text): <<>> is NaN
ParseInt(text) ==
    LET t      == TrimStart(text)
        signed == Len(t) > 0 /\ CharAt(t, 1) \in {"-", "+"}
        body   == IF signed THEN SubSeq(t, 2, Len(t)) ELSE t
        n      == LeadingDigits(body, 1)
        value  == ParseIndex(SubSeq(body, 1, n), n)
    IN  IF n = 0 THEN <<>>
        ELSE IF signed /\ CharAt(t, 1) = "-" THEN <<0 - value>> ELSE <<value>>

\* the settings after handleNumericSettingChange(e, key) with e.target.value
\* = text: onSettingChange(key, value) unless the value is NaN
NumericSetting(current, key, text) ==
    LET value == ParseInt(text)
    IN  IF value # <<>> THEN [current EXCEPT ![key] = value[1]] ELSE current

\* the texts typed into a numeric input of the settings panel
NumericInputs == {"", "0", "1", "2", "9"}

\* the numeric inputs of the settings panel
NumericKeys == {"agentCount", "maxRounds", "reasoningDepth"}

\* handleNumericSettingChange(e, key): a change event of a numeric input
handleNumericSettingChange ==
    /\ \E key \in NumericKeys, text \in NumericInputs :
            settings' = NumericSetting(settings, key, text)
    /\ UNCHANGED <<turn, harnessVars>>
    /\ UNCHANGED <<appVars, editorContent, serviceVars, singleSent, failures, singlePending, runCount, roundsPlanned, runs>>

(***************************************************************************)
(* Specification.                                                          *)
(***************************************************************************)
AgentIndex == 1..MaxAgentCount

Next ==
    \/ OrchestratorButton
    \/ handleQuantumAction
    \/ handleSendPrompt
    \/ onRerunOrchestration
    \/ ToggleMultiAgentMode
    \/ SingleResolved
    \/ SingleRejected
    \/ \E r \in RunIds : GenesisComputed(r)
    \/ \E r \in RunIds, a \in AgentIndex : StepHashed(r, a)
    \/ \E r \in RunIds, a \in AgentIndex : StepSimulated(r, a)
    \/ \E r \in RunIds, a \in AgentIndex : StepResponded(r, a)
    \/ \E r \in RunIds, a \in AgentIndex : StepRejected(r, a)
    \/ \E r \in RunIds : RoundBarrier(r)
    \/ \E r \in RunIds : AssemblyDone(r)

Spec == Init /\ [][Next]_vars

\* a continuation of some run is waiting to be resumed: a digest, a timer or
\* a pause of the browser to complete, or a call to the collaborator to settle
Suspended ==
    \E r \in RunIds :
        \/ runs[r].pc \in {"genesis", "assembly"}
        \/ runs[r].pc = "round" /\ \A a \in DOMAIN runs[r].step : runs[r].step[a] = "done"
        \/ \E a \in DOMAIN runs[r].step : runs[r].step[a] \in {"hashing", "simulating", "calling"}

\* the event loop resumes one of them
Resume == Suspended /\ turn' = 1 - turn

\* The event loop does not stall: while a continuation of a run is waiting,
\* one is resumed (turn flips on exactly the steps that resume one, and
\* Suspended is the disjunction of their guards).  A behaviour starts finitely
\* many runs, so every digest, timer and pause completes in the end and every
\* call to the collaborator settles, by an answer or by a rejection.
Fairness == WF_turn(Resume)

FairSpec == Init /\ [][Next]_vars /\ Fairness

(***************************************************************************)
(* assembleFinalAnswer called on its own, on fragment lists of every kind. *)
(***************************************************************************)
\* fragments in a list handed to the assembler
MaxFragments == 3
\* calls of the assembler on one list
MaxCalls == 2

RECURSIVE Repeat(_, _)
Repeat(s, n) == IF n = 0 THEN "" ELSE s \o Repeat(s, n - 1)

\* candidate texts: two that differ only after their first 100 characters,
\* two that read as array indices, one that names an inherited property
CandidateTexts ==
    { Repeat("let a = 1;", 10) \o "\nlet b = 2;",
      Repeat("let a = 1;", 10) \o "\nlet c = 3;",
      "7", "10", "constructor" }

\* CandidateFragment values (the assembler reads agentId, round, candidate, entropy)
CandidateFragments ==
    { [agentId |-> ar[1], origin |-> "", round |-> ar[2], candidate |-> t, entropy |-> e] :
        ar \in {<<"agent-0", 0>>, <<"agent-1", 0>>, <<"agent-1", 1>>},
        t \in CandidateTexts,
        e \in {2000, 3000} }

FragmentLists == UNION {[1..n -> CandidateFragments] : n \in 0..MaxFragments}

\* the session as mounted with the default mode, nothing started
SessionIdle ==
    /\ isGenerating = FALSE
    /\ showOrchestrationPanel = FALSE
    /\ consensusResult = <<>>
    /\ quantumConsensusCode = <<>>
    /\ agents = INITIAL_AGENTS_STATE
    /\ settings = [multiAgentMode |-> TRUE, agentCount |-> 2, maxRounds |-> 1,
                   reasoningDepth |-> DEFAULT_REASONING_DEPTH]
    /\ editorContent = INITIAL_EDITOR_CONTENT
    /\ apiKey = TRUE
    /\ ai = TRUE
    /\ isConnected = TRUE
    /\ singleSent = 0
    /\ singlePending = 0
    /\ turn = 0
    /\ runCount = 0
    /\ roundsPlanned = 0
    /\ failures = 0
    /\ runs = [r \in RunIds |-> IdleRun]

AssemblerInit ==
    /\ SessionIdle
    /\ helperCall = NoHelperCall
    /\ FreshMemory
    /\ EditorMounted
    /\ NoRecentFiles
    /\ \E allCandidates \in FragmentLists :
        assemblerCall = [allCandidates |-> allCandidates, genesis |-> sha256("GENESIS"), returned |-> <<>>]

\* assembleFinalAnswer(allCandidates, genesis) is called and returns or throws
CallAssembler ==
    /\ Len(assemblerCall.returned) < MaxCalls
    /\ assemblerCall' = [assemblerCall EXCEPT !.returned =
            Append(@, assembleFinalAnswer(assemblerCall.allCandidates, assemblerCall.genesis))]
    /\ UNCHANGED <<sessionVars, helperCall, memoryVars, editorVars, recentVars>>

AssemblerNext == CallAssembler

AssemblerSpec == AssemblerInit /\ [][AssemblerNext]_vars

(***************************************************************************)
(* helpers.ts called on their own: generateFractalHash and                 *)
(* calculateEntropy applied to arguments drawn from bounded sets.          *)
(***************************************************************************)
MaxDepth == 5
MaxTextLen == 4

\* a genesis hash as sha256 returns it: 64 hexadecimal digits
SampleGenesis == sha256("GENESIS")

\* seeds generateFractalHash is called with: the empty seed, seeds shorter
\* than 12 characters, one of 12, and the seeds of two agents of a run
FractalSeeds == {"", "a", "agent-0", "abcdefghijkl",
                 SampleGenesis \o "agent-0", SampleGenesis \o "agent-1"}

\* the milliseconds that pass before a call
Elapsed == {0, 1, 1000}

RECURSIVE TextsUpTo(_)
\* the strings over a, b, c of at most n characters
TextsUpTo(n) ==
    IF n = 0 THEN {""}
    ELSE LET shorter == TextsUpTo(n - 1)
         IN  shorter \cup {t \o c : t \in shorter, c \in {"a", "b", "c"}}

\* strings calculateEntropy is called with
EntropyTexts == TextsUpTo(MaxTextLen) \cup {SampleGenesis}

RECURSIVE Fill(_, _)
\* the character c, n times
Fill(c, n) ==
    IF n = 0 THEN ""
    ELSE LET half == Fill(c, n \div 2)
         IN  half \o half \o (IF n % 2 = 1 THEN c ELSE "")

\* an editor content of n characters: a head of "h", a tail of "t", and in
\* between them one "|"
ContextOfLength(n) ==
    IF n = 0 THEN "" ELSE Fill("h", (n - 1) \div 2) \o "|" \o Fill("t", n - 1 - (n - 1) \div 2)

\* editor contents the step runner is called with: the initial content, and
\* contents at, just under, just over and well over MAX_CONTEXT_LENGTH
ContextSamples ==
    {INITIAL_EDITOR_CONTENT} \cup
    {ContextOfLength(n) : n \in {0, MAX_CONTEXT_LENGTH - 1, MAX_CONTEXT_LENGTH, MAX_CONTEXT_LENGTH + 1,
                                 MAX_CONTEXT_LENGTH + 2, MAX_CONTEXT_LENGTH + MAX_CONTEXT_LENGTH \div 2}}

\* the responses stripCodeBlock is called with: fenced with and without a
\* language tag, with an empty body, with a body of white space, with a
\* fence inside the body, with white space around, and not fenced
ResponseSamples ==
    {Fence \o "js\nlet x = 1;\n" \o Fence,
     Fence \o "\nlet x = 1;\n" \o Fence,
     Fence \o "js\n  let x = 1;  \n" \o Fence,
     " \n" \o Fence \o "ts\nlet x = 1;\n" \o Fence \o "\n ",
     Fence \o "\n\n" \o Fence,
     Fence \o "js\n\n" \o Fence,
     Fence \o "\n  \n" \o Fence,
     Fence \o "js\n" \o Fence,
     Fence \o "\na\n" \o Fence \o "\nb\n" \o Fence,
     Fence \o "c++\nint x;\n" \o Fence,
     "see:\n" \o Fence \o "js\nlet x = 1;\n" \o Fence,
     Fence \o "js\nlet x = 1;\n" \o Fence \o "\ndone",
     "  let x = 1;\n",
     "let x = 1;",
     ""}

HelperInit ==
    /\ SessionIdle
    /\ assemblerCall = NoCall
    /\ FreshMemory
    /\ EditorMounted
    /\ NoRecentFiles
    /\ \/ \E seed \in FractalSeeds, depth \in 1..MaxDepth :
            helperCall = [fn |-> "generateFractalHash", text |-> seed, depth |-> depth,
                          now |-> Clock(0), returned |-> <<>>]
       \/ \E text \in EntropyTexts :
            helperCall = [fn |-> "calculateEntropy", text |-> text, depth |-> 0,
                          now |-> Clock(0), returned |-> <<>>]
       \/ \E context \in ContextSamples :
            helperCall = [fn |-> "truncatedContext", text |-> context, depth |-> 0,
                          now |-> Clock(0), returned |-> <<>>]
       \/ \E response \in ResponseSamples :
            helperCall = [fn |-> "stripCodeBlock", text |-> response, depth |-> 0,
                          now |-> Clock(0), returned |-> <<>>]

\* generateFractalHash(seed, depth) is called, some milliseconds after the
\* call before it
CallGenerateFractalHash ==
    /\ helperCall.fn = "generateFractalHash"
    /\ Len(helperCall.returned) < MaxCalls
    /\ \E elapsed \in Elapsed :
        LET now == helperCall.now + elapsed
        IN  helperCall' = [helperCall EXCEPT
                !.now = now,
                !.returned = Append(@, [at |-> now,
                                        value |-> generateFractalHash(helperCall.text, helperCall.depth, now)])]
    /\ UNCHANGED <<sessionVars, assemblerCall, memoryVars, editorVars, recentVars>>

\* calculateEntropy(text) is called
CallCalculateEntropy ==
    /\ helperCall.fn = "calculateEntropy"
    /\ Len(helperCall.returned) < MaxCalls
    /\ \E elapsed \in Elapsed :
        LET now == helperCall.now + elapsed
        IN  helperCall' = [helperCall EXCEPT
                !.now = now,
                !.returned = Append(@, [at |-> now, value |-> calculateEntropy(helperCall.text)])]
    /\ UNCHANGED <<sessionVars, assemblerCall, memoryVars, editorVars, recentVars>>

\* runOrchestrationAgentStep(agent, prompt, context, ...) computes the
\* context it embeds in its prompt
CallTruncatedContext ==
    /\ helperCall.fn = "truncatedContext"
    /\ Len(helperCall.returned) < MaxCalls
    /\ \E elapsed \in Elapsed :
        LET now == helperCall.now + elapsed
        IN  helperCall' = [helperCall EXCEPT
                !.now = now,
                !.returned = Append(@, [at |-> now, value |-> TruncatedContext(helperCall.text)])]
    /\ UNCHANGED <<sessionVars, assemblerCall, memoryVars, editorVars, recentVars>>

\* stripCodeBlock(content) is called
CallStripCodeBlock ==
    /\ helperCall.fn = "stripCodeBlock"
    /\ Len(helperCall.returned) < MaxCalls
    /\ \E elapsed \in Elapsed :
        LET now == helperCall.now + elapsed
        IN  helperCall' = [helperCall EXCEPT
                !.now = now,
                !.returned = Append(@, [at |-> now, value |-> stripCodeBlock(helperCall.text)])]
    /\ UNCHANGED <<sessionVars, assemblerCall, memoryVars, editorVars, recentVars>>

HelperNext ==
    \/ CallGenerateFractalHash
    \/ CallCalculateEntropy
    \/ CallTruncatedContext
    \/ CallStripCodeBlock

HelperSpec == HelperInit /\ [][HelperNext]_vars

(***************************************************************************)
(* memoryManager.ts: the session cache.  The persisted cache is the object *)
(* kept under MEMORY_STORAGE_KEY, held as the sequence of its entries in   *)
(* the order Object.entries lists them (the order of insertion).           *)
(***************************************************************************)
MaxStores == 103
MaxIrregular == 1

CACHE_LIMIT == 100
MAX_MEMORY_THRESHOLD_BYTES == 52428800
AUTOSAVE_CONTENT_KEY == "autosave_content"

\* the sizes of the data store is called with: a small text, and one byte
\* more than the threshold
DataSizes == {64, MAX_MEMORY_THRESHOLD_BYTES + 1}

\* the keys the nth call of store may be made with: the autosave key, or a
\* key not used before
StoreKeys(n) == {AUTOSAVE_CONTENT_KEY, "key-" \o ToString(n)}

\* Date.now() at the nth call of store
StoreClock(n) == Clock(n)

\* the data the nth call of store is made with
StoreData(n) == "data-" \o ToString(n)

\* window.quantumMemoryCache.set(key, data) applied to the map
MapSet(map, key, data) == {e \in map : e.key # key} \cup {[key |-> key, data |-> data]}

\* getCache(): the parsed content of localStorage[MEMORY_STORAGE_KEY]
getCache == persistedCache

\* saveCache(cache) applied to the persisted content stored: setItem either
\* works or throws, and the exception is caught
saveCache(stored, cache, setItemWorks) == IF setItemWorks THEN cache ELSE stored

\* the positions of cache that hold key
PositionsOf(cache, key) == {i \in DOMAIN cache : cache[i].key = key}

\* cache[key] = entry: an existing property keeps its place, a new one is
\* put last
PutEntry(cache, entry) ==
    IF PositionsOf(cache, entry.key) = {}
    THEN Append(cache, entry)
    ELSE [i \in DOMAIN cache |-> IF cache[i].key = entry.key THEN entry ELSE cache[i]]

\* the entries of cache at the positions keep, in their order
RECURSIVE KeepPositions(_, _, _)
KeepPositions(cache, keep, i) ==
    IF i > Len(cache) THEN <<>>
    ELSE (IF i \in keep THEN <<cache[i]>> ELSE <<>>) \o KeepPositions(cache, keep, i + 1)

\* the number of entries that the stable sort by timestamp puts before
\* entry i
RankByTimestamp(cache, i) ==
    Cardinality({j \in DOMAIN cache :
        \/ cache[j].timestamp < cache[i].timestamp
        \/ cache[j].timestamp = cache[i].timestamp /\ j < i})

\* cleanupCache() applied to the persisted content stored: it reads the
\* persisted cache itself and, if that holds more than CACHE_LIMIT entries,
\* saves it without the oldest Math.floor(entries.length * 0.3) of them
cleanupCache(stored, setItemWorks) ==
    LET cache   == stored
        removed == (3 * Len(cache)) \div 10
    IN  IF Len(cache) > CACHE_LIMIT
        THEN saveCache(stored,
                       KeepPositions(cache, {i \in DOMAIN cache : RankByTimestamp(cache, i) >= removed}, 1),
                       setItemWorks)
        ELSE stored

CacheInit ==
    /\ SessionIdle
    /\ assemblerCall = NoCall
    /\ helperCall = NoHelperCall
    /\ FreshMemory
    /\ EditorMounted
    /\ NoRecentFiles

\* store(key, data, priority) is called and returns: the nth call is made
\* with a new key and small data, and every setItem works, unless the call
\* is one of the few irregular ones (the autosave key stored again, data
\* over the threshold, a setItem that throws)
store ==
    /\ storeCalls.count < MaxStores
    /\ \E key \in StoreKeys(storeCalls.count + 1), dataSize \in DataSizes,
          cleanupSaved \in BOOLEAN, saved \in BOOLEAN :
        LET regular == /\ key # AUTOSAVE_CONTENT_KEY
                       /\ dataSize <= MAX_MEMORY_THRESHOLD_BYTES
                       /\ cleanupSaved
                       /\ saved
            irregular == storeCalls.irregular + (IF regular THEN 0 ELSE 1)
            cache == PutEntry(getCache,
                              [key |-> key, timestamp |-> StoreClock(storeCalls.count + 1),
                               priority |-> IF key = AUTOSAVE_CONTENT_KEY THEN "high" ELSE "medium",
                               size |-> dataSize, data |-> StoreData(storeCalls.count + 1)])
            called == [count |-> storeCalls.count + 1, irregular |-> irregular,
                       returned |-> <<>>, key |-> key, data |-> StoreData(storeCalls.count + 1),
                       retrieved |-> <<>>]
            cleaned == IF Len(cache) > CACHE_LIMIT THEN cleanupCache(persistedCache, cleanupSaved)
                       ELSE persistedCache
        IN  /\ irregular <= MaxIrregular
            /\ (Len(cache) <= CACHE_LIMIT => cleanupSaved)
            /\ IF dataSize > MAX_MEMORY_THRESHOLD_BYTES
               THEN /\ cleanupSaved /\ saved
                    /\ quantumMemoryCache' = MapSet(quantumMemoryCache, key, called.data)
                    /\ persistedCache' = persistedCache
                    /\ storeCalls' = [called EXCEPT !.returned = <<FALSE>>]
               ELSE /\ persistedCache' = saveCache(cleaned, cache, saved)
                    /\ quantumMemoryCache' = quantumMemoryCache
                    /\ storeCalls' = [called EXCEPT !.returned = <<TRUE>>]
    /\ UNCHANGED <<sessionVars, assemblerCall, helperCall, editorVars, recentVars>>

\* what retrieve(key) returns: <<>> is null
Retrieved(key) ==
    LET cache == getCache
    IN  IF PositionsOf(cache, key) # {}
        THEN <<cache[CHOOSE i \in PositionsOf(cache, key) : TRUE].data>>
        ELSE IF \E e \in quantumMemoryCache : e.key = key
        THEN <<(CHOOSE e \in quantumMemoryCache : e.key = key).data>>
        ELSE <<>>

\* retrieve(key) is called and returns, with the key of the last call of
\* store or with the autosave key
retrieve ==
    /\ \E key \in {storeCalls.key, AUTOSAVE_CONTENT_KEY} :
        storeCalls' = [storeCalls EXCEPT !.retrieved = <<[key |-> key, value |-> Retrieved(key)]>>]
    /\ UNCHANGED <<sessionVars, assemblerCall, helperCall, editorVars, recentVars,
                   persistedCache, quantumMemoryCache>>

CacheNext == store \/ retrieve

CacheSpec == CacheInit /\ [][CacheNext]_vars

(***************************************************************************)
(* The configuration boundary: the settings a session is mounted with      *)
(* (memoryManager.loadSettings), the numeric inputs of the settings panel, *)
(* and the start of a run with the settings reached.                       *)
(***************************************************************************)
\* what localStorage holds under SETTINGS_STORAGE_KEY, parsed: nothing (<<>>),
\* or settings an earlier session saved
StoredSettings ==
    {<<>>} \cup {<<st>> : st \in [multiAgentMode : {TRUE},
                                 agentCount : {1, 2},
                                 maxRounds : {0, 1},
                                 reasoningDepth : {DEFAULT_REASONING_DEPTH, 6}]}

\* loadSettings(): the stored settings as they are, or the defaults
loadSettings(stored) ==
    IF stored # <<>> THEN stored[1]
    ELSE [multiAgentMode |-> TRUE, agentCount |-> 5, maxRounds |-> 3, reasoningDepth |-> 3]

SettingsInit ==
    /\ isGenerating = FALSE
    /\ showOrchestrationPanel = FALSE
    /\ consensusResult = <<>>
    /\ quantumConsensusCode = <<>>
    /\ agents = INITIAL_AGENTS_STATE
    /\ \E stored \in StoredSettings : settings = loadSettings(stored)
    /\ editorContent = INITIAL_EDITOR_CONTENT
    /\ apiKey = TRUE
    /\ ai = TRUE
    /\ isConnected = TRUE
    /\ singleSent = 0
    /\ singlePending = 0
    /\ turn = 0
    /\ runCount = 0
    /\ roundsPlanned = 0
    /\ failures = 0
    /\ runs = [r \in RunIds |-> IdleRun]
    /\ assemblerCall = NoCall
    /\ helperCall = NoHelperCall
    /\ FreshMemory
    /\ EditorMounted
    /\ NoRecentFiles

\* the steps up to the seeding of the agents of a run
SettingsNext ==
    \/ handleNumericSettingChange
    \/ OrchestratorButton
    \/ \E r \in RunIds : GenesisComputed(r)

SettingsSpec == SettingsInit /\ [][SettingsNext]_vars

(***************************************************************************)
(* The Editor component on its own: typing, the debounce timer, undo and   *)
(* redo, and the effect that runs when the parent hands it new content.    *)
(***************************************************************************)
MaxEditorOps == 3

MAX_HISTORY_SIZE == 50

\* the texts the user leaves in the editing surface
EditorTexts == {INITIAL_EDITOR_CONTENT, "", "let a", "let b"}

\* what a step of the Editor leaves alone
besideEditor == <<appVars, settings, serviceVars, singleSent, singlePending, runCount,
                  roundsPlanned, failures, runs, turn, assemblerCall, helperCall,
                  memoryVars, recentVars>>

\* the last element of a non-empty stack
Top(stack) == stack[Len(stack)]

\* stack.pop() leaves this
Pop(stack) == SubSeq(stack, 1, Len(stack) - 1)

\* pushHistory: the stacks it leaves when the surface holds currentContent
pushHistory(history, redoes, currentContent) ==
    IF Len(history) > 0 /\ Top(history) = currentContent
    THEN [history |-> history, redo |-> redoes]
    ELSE LET pushed == Append(history, currentContent)
         IN  [history |-> IF Len(pushed) > MAX_HISTORY_SIZE THEN Tail(pushed) ELSE pushed,
              redo |-> <<>>]

\* onContentChange(newContent) sets the parent's editorContent; the Editor
\* renders again, and when its content differs from the one of the render
\* before, the effect on [content, currentFileType] runs again and sets
\* both stacks anew
ContentEffect(content, newContent, stacks) ==
    IF newContent # content THEN [history |-> <<newContent>>, redo |-> <<>>]
    ELSE stacks

\* an input event: the user has changed the text of the surface, and
\* handleInput starts the debounce timer again
handleInput ==
    /\ \E text \in EditorTexts :
        /\ text # editorText
        /\ editorText' = text
    /\ debounceTimer' = TRUE
    /\ UNCHANGED <<editorContent, historyStack, redoStack, editorOps, besideEditor>>

\* the debounce timer fires: the edit is committed
DebounceFires ==
    /\ debounceTimer
    /\ Len(editorOps) < MaxEditorOps
    /\ LET stacks == ContentEffect(editorContent, editorText,
                                   pushHistory(historyStack, redoStack, editorText))
       IN  /\ historyStack' = stacks.history
           /\ redoStack' = stacks.redo
    /\ editorContent' = editorText
    /\ debounceTimer' = FALSE
    /\ editorOps' = Append(editorOps, [op |-> "edit", before |-> editorContent, text |-> editorText])
    /\ UNCHANGED <<editorText, besideEditor>>

\* undo(), by Ctrl+Z or by the parent through the ref
undo ==
    /\ Len(editorOps) < MaxEditorOps
    /\ IF Len(historyStack) > 1
       THEN LET popped == [history |-> Pop(historyStack),
                           redo |-> Append(redoStack, Top(historyStack))]
                newContent == Top(popped.history)
                stacks == ContentEffect(editorContent, newContent, popped)
            IN  /\ editorText' = newContent
                /\ editorContent' = newContent
                /\ historyStack' = stacks.history
                /\ redoStack' = stacks.redo
       ELSE UNCHANGED <<editorText, editorContent, historyStack, redoStack>>
    /\ editorOps' = Append(editorOps, [op |-> "undo", before |-> editorText, text |-> editorText'])
    /\ UNCHANGED <<debounceTimer, besideEditor>>

\* redo(), by Ctrl+Shift+Z, Ctrl+Y or by the parent through the ref
redo ==
    /\ Len(editorOps) < MaxEditorOps
    /\ IF Len(redoStack) > 0
       THEN LET poppedContent == Top(redoStack)
                pushed == [history |-> Append(historyStack, poppedContent),
                           redo |-> Pop(redoStack)]
                stacks == ContentEffect(editorContent, poppedContent, pushed)
            IN  /\ editorText' = poppedContent
                /\ editorContent' = poppedContent
                /\ historyStack' = stacks.history
                /\ redoStack' = stacks.redo
       ELSE UNCHANGED <<editorText, editorContent, historyStack, redoStack>>
    /\ editorOps' = Append(editorOps, [op |-> "redo", before |-> editorText, text |-> editorText'])
    /\ UNCHANGED <<debounceTimer, besideEditor>>

EditorInit ==
    /\ SessionIdle
    /\ assemblerCall = NoCall
    /\ helperCall = NoHelperCall
    /\ FreshMemory
    /\ EditorMounted
    /\ NoRecentFiles

EditorNext == handleInput \/ DebounceFires \/ undo \/ redo

EditorSpec == EditorInit /\ [][EditorNext]_vars

(***************************************************************************)
(* memoryManager.addRecentFile on its own, called as the handler of a      *)
(* loaded file calls it: with the recent files of the state and the name   *)
(* and the text of the file.                                               *)
(***************************************************************************)
MaxAdds == 12

\* the files the nth call is made with: a file that comes again and again,
\* with a short text or with one longer than the preview, or a file with a
\* name not used before
FilesRead(n) ==
    {[filename |-> "index.html", content |-> "<p>x</p>"],
     [filename |-> "index.html", content |-> Fill("x", 1001)],
     [filename |-> "file-" \o ToString(n) \o ".js", content |-> "let x = 1;"]}

\* a slice that keeps the whole list
SliceNothing(list, max) == list

\* the first max elements of list: Array.prototype.slice(0, max)
Slice(list, max) == SubSeq(list, 1, Min(Len(list), max))

\* currentRecentFiles.filter(f => f.filename !== filename)
RECURSIVE FilterOut(_, _)
FilterOut(list, filename) ==
    IF list = <<>> THEN <<>>
    ELSE (IF Head(list).filename # filename THEN <<Head(list)>> ELSE <<>>)
         \o FilterOut(Tail(list), filename)

\* addRecentFile(currentRecentFiles, filename, content), called at time now
addRecentFile(currentRecentFiles, filename, content, now) ==
    LET newRecentFiles == <<[filename |-> filename,
                             contentPreview |-> Substring(content, 0, 1000),
                             timestamp |-> now]>>
                          \o FilterOut(currentRecentFiles, filename)
    IN  Slice(newRecentFiles, 10)

\* a file has been read: addRecentFile is called with the recent files of
\* the state, and its value becomes the recent files of the state
CallAddRecentFile ==
    /\ recentCalls.count < MaxAdds
    /\ \E file \in FilesRead(recentCalls.count + 1) :
        /\ recentFiles' = addRecentFile(recentFiles, file.filename, file.content,
                                        Clock(recentCalls.count + 1))
        /\ recentCalls' = [count |-> recentCalls.count + 1, filename |-> file.filename,
                           content |-> file.content]
    /\ UNCHANGED <<sessionVars, assemblerCall, helperCall, memoryVars, editorVars>>

RecentInit ==
    /\ SessionIdle
    /\ assemblerCall = NoCall
    /\ helperCall = NoHelperCall
    /\ FreshMemory
    /\ EditorMounted
    /\ NoRecentFiles

RecentNext == CallAddRecentFile

RecentSpec == RecentInit /\ [][RecentNext]_vars

(***************************************************************************)
(* Properties.                                                             *)
(***************************************************************************)
\* invocation r has passed the guard and has not reached its finally block
InProgress(r) == runs[r].pc \in {"genesis", "round", "assembly"}

\* this step takes invocation r through its finally block
ReachesFinalizer(r) == InProgress(r) /\ runs'[r].pc = "done"

\* this step is the catch block and the finally block of invocation r
Aborts(r) == ReachesFinalizer(r) /\ runs'[r].error # <<>>

\* C1: at most one orchestration run is in progress at any time: a start
\* request made while an earlier run has not reached its finalizer starts no
\* genesis, seeding, round or assembly work.
C1_SingleFlight == Cardinality({r \in RunIds : InProgress(r)}) <= 1

\* C2: every run that has started eventually reaches its finalizer, after
\* success and after a caught failure alike, provided every step settles; and
\* when the finalizer has run the in-progress flag is false and each of the
\* five display agents is inactive.
C2_FinalizerAlwaysRuns ==
    /\ \A r \in RunIds : InProgress(r) ~> (runs[r].pc = "done")
    /\ [][\A r \in RunIds : ReachesFinalizer(r) =>
              /\ isGenerating' = FALSE
              /\ \A t \in AgentType : agents'[t].isActive = FALSE]_vars

\* a run has gone through its finalizer after a caught failure
C2_Witness ==
    \E r \in RunIds :
        /\ runs[r].pc = "done"
        /\ runs[r].error # <<>>
        /\ ~isGenerating
        /\ \A t \in AgentType : ~agents[t].isActive

\* C3: a run in which an error was thrown produces no consensus result: the
\* result field is null when its finalizer has run, and the fragments it had
\* collected are never assembled.
C3_FailedRunHasNoResult ==
    [][\A r \in RunIds : Aborts(r) =>
          /\ consensusResult' = <<>>
          /\ runs[r].consensus = <<>>]_vars

\* C4: a run that completes without a fatal error hands exactly N * R
\* fragments to the assembler, exactly one for each (agent, round) pair.
C4_FragmentCount ==
    \A r \in RunIds : runs[r].pc = "assembly" =>
        LET run == runs[r]
        IN  /\ Len(run.allCandidates) = run.agentCount * run.maxRounds
            /\ \A a \in 1..run.agentCount, k \in 0..(run.maxRounds - 1) :
                 Cardinality({i \in DOMAIN run.allCandidates :
                                 /\ run.allCandidates[i].agentId = run.agents[a].id
                                 /\ run.allCandidates[i].round = k}) = 1

\* a run of two agents and two rounds is at the assembler
C4_Witness ==
    \E r \in RunIds :
        /\ runs[r].pc = "assembly"
        /\ runs[r].agentCount = 2
        /\ runs[r].maxRounds = 2
        /\ Len(runs[r].allCandidates) = 4

\* C5: rounds are strictly sequential: no step of the next round is issued,
\* and no origin is rotated for it, before every step of the current round
\* has finished; and all the steps of a round are issued together.
C5_RoundsSequential ==
    [][\A r \in RunIds :
          /\ (/\ runs'[r].pc = "round"
              /\ (runs[r].pc # "round" \/ runs'[r].round # runs[r].round))
             => /\ \A a \in DOMAIN runs[r].step : runs[r].step[a] = "done"
                /\ runs[r].pc = "round" => runs'[r].round = runs[r].round + 1
                /\ DOMAIN runs'[r].step = 1..runs'[r].agentCount
                /\ \A a \in DOMAIN runs'[r].step : runs'[r].step[a] = "hashing"
          /\ \A a \in DOMAIN runs[r].agents :
                (a \in DOMAIN runs'[r].agents /\ runs'[r].agents[a].origin # runs[r].agents[a].origin)
                => /\ runs[r].step[a] = "hashing"
                   /\ runs'[r].round = runs[r].round]_vars

\* the second round of a run has just been issued
C5_Witness ==
    \E r \in RunIds :
        /\ runs[r].pc = "round"
        /\ runs[r].round = 1
        /\ \A a \in DOMAIN runs[r].step : runs[r].step[a] = "hashing"
        /\ Len(runs[r].allCandidates) = runs[r].agentCount

\* C6: a round is complete only once every step of it has settled: the run
\* does not move on to its error handler, its finalizer or the next round
\* while a step of the current round is outstanding.
C6_RoundSettlesFirst ==
    [][\A r \in RunIds :
          (runs[r].pc = "round" /\ (runs'[r].pc # "round" \/ runs'[r].round # runs[r].round))
          => \A a \in DOMAIN runs[r].step :
                \/ runs[r].step[a] \in {"done", "failed"}
                \/ a \notin DOMAIN runs'[r].step
                \/ runs'[r].step[a] \in {"done", "failed"}]_vars

\* C7: once a failure has reached the run's top-level handler, no other step
\* of that run appends a fragment to the accumulator or an entry to a log.
C7_AbortedWorkAppendsNothing ==
    [][\A r \in RunIds :
          (runs[r].pc = "done" /\ runs[r].error # <<>> /\ runs'[r] # runs[r])
          => /\ Len(runs'[r].allCandidates) <= Len(runs[r].allCandidates)
             /\ \A t \in AgentType : agents'[t].log = agents[t].log]_vars

\* C8: after a run is aborted by a collaborator error, once it has finished
\* (in-progress flag false) the status of ECHO shows the error message.
C8_ErrorShownAfterAbort ==
    [][\A r \in RunIds : Aborts(r) =>
          /\ isGenerating' = FALSE
          /\ agents'["echo"].content = ErrorStatus(runs'[r].error[1])]_vars

\* the marker a simulated fragment of agent agentId begins with
SimulatedMarker(agentId) == "// SIMULATED RESPONSE for Agent " \o agentId

\* C9: with no credential configured the run does not abort: it completes
\* all rounds and assembly, and the text of every fragment begins with the
\* simulated-response marker that holds the id of the agent that produced it.
C9_OfflineRunCompletes ==
    /\ [](~apiKey => \A r \in RunIds :
            /\ runs[r].error = <<>>
            /\ \A i \in DOMAIN runs[r].allCandidates :
                 StartsWith(runs[r].allCandidates[i].candidate,
                            SimulatedMarker(runs[r].allCandidates[i].agentId)))
    /\ \A r \in RunIds :
          (~apiKey /\ InProgress(r)) ~> (runs[r].pc = "done" /\ runs[r].error = <<>> /\ consensusResult # <<>>)

\* an offline run of two rounds has collected all its fragments
C9_Witness ==
    \E r \in RunIds :
        /\ ~apiKey
        /\ runs[r].pc = "assembly"
        /\ Len(runs[r].allCandidates) = 4
        /\ runs[r].consensus # <<>>
        /\ StartsWith(runs[r].consensus[1].selectedCandidate, SimulatedMarker(runs[r].consensus[1].rootAgent))

\* C10: whenever connectivity is known to be absent when a step is run (no
\* credential, or the service has marked itself disconnected), the step takes
\* the degraded branch and no call to the collaborator is attempted.
C10_NoCallWhenDisconnected ==
    [][\A r \in RunIds : \A a \in DOMAIN runs[r].step :
          (/\ runs[r].step[a] = "hashing"
           /\ a \in DOMAIN runs'[r].step
           /\ runs'[r].step[a] # "hashing"
           /\ (~apiKey \/ ~isConnected))
          => runs'[r].step[a] = "simulating"]_vars

(***************************************************************************)
(* Properties of assembleFinalAnswer called on its own.                    *)
(***************************************************************************)
\* the values the calls made so far returned (a call that threw returned none)
Returned == {assemblerCall.returned[k] : k \in {j \in DOMAIN assemblerCall.returned : ~Threw(assemblerCall.returned[j])}}

\* the positions of the fragments whose text has the first 100 characters of fragment i's
Members(frags, i) ==
    {j \in DOMAIN frags : Substring(frags[j].candidate, 0, 100) = Substring(frags[i].candidate, 0, 100)}

RECURSIVE EntropyOf(_, _)
\* the entropies of the fragments at the positions idx, summed
EntropyOf(frags, idx) ==
    IF idx = {} THEN 0
    ELSE LET i == CHOOSE j \in idx : TRUE
         IN  frags[i].entropy + EntropyOf(frags, idx \ {i})

\* agentCount*2 + roundCount*1.5 + avgEntropy*3 of the group of fragment i, in thousandths
ScoreOf(frags, i) ==
    LET m == Members(frags, i)
    IN  2000 * Cardinality({frags[j].agentId : j \in m})
        + 1500 * Cardinality({frags[j].round : j \in m})
        + (3 * EntropyOf(frags, m)) \div Cardinality(m)

\* C11: for every non-empty fragment list, selectedCandidate is the text of
\* the first-inserted fragment (the earliest in the input list) of a group
\* whose score no other group exceeds.
C11_SelectsFirstInserted ==
    LET frags == assemblerCall.allCandidates
    IN  \A res \in Returned :
            frags # <<>> =>
                \E i \in DOMAIN frags :
                    /\ \A j \in Members(frags, i) : i <= j
                    /\ \A j \in DOMAIN frags : ScoreOf(frags, i) >= ScoreOf(frags, j)
                    /\ res.selectedCandidate = frags[i].candidate

\* a result whose selected text is the first fragment's although the second
\* fragment, of the same group, has the higher entropy
C11_Witness ==
    LET frags == assemblerCall.allCandidates
    IN  /\ Len(frags) = 2
        /\ Members(frags, 1) = {1, 2}
        /\ frags[1].candidate # frags[2].candidate
        /\ frags[2].entropy > frags[1].entropy
        /\ \E res \in Returned : res.selectedCandidate = frags[1].candidate

\* the two fragments of the example: one shared prefix, two agents, rounds 0
\* and 1, entropies 2.0 and 3.0
ExampleFragments ==
    << [agentId |-> "agent-0", origin |-> "", round |-> 0,
        candidate |-> Repeat("let a = 1;", 10) \o "\nlet b = 2;", entropy |-> 2000],
       [agentId |-> "agent-1", origin |-> "", round |-> 1,
        candidate |-> Repeat("let a = 1;", 10) \o "\nlet c = 3;", entropy |-> 3000] >>

\* C12: for every group the assembler builds, agentCount is the number of
\* distinct agent ids among its fragments, roundCount the number of distinct
\* rounds, avgEntropy the mean of their entropies and score =
\* agentCount*2 + roundCount*1.5 + avgEntropy*3; the example list gives one
\* group with score 14.5.
C12_GroupScore ==
    LET frags == assemblerCall.allCandidates
    IN  \A res \in Returned :
            /\ \A g \in DOMAIN res.allGroups :
                LET group == res.allGroups[g]
                    m     == {j \in DOMAIN frags : Substring(frags[j].candidate, 0, 100) = group.key}
                IN  /\ m # {}
                    /\ group.agentCount = Cardinality({frags[j].agentId : j \in m})
                    /\ group.roundCount = Cardinality({frags[j].round : j \in m})
                    /\ group.avgEntropy = EntropyOf(frags, m) \div Cardinality(m)
                    /\ group.score = 2000 * group.agentCount + 1500 * group.roundCount
                                     + (3 * EntropyOf(frags, m)) \div Cardinality(m)
            /\ frags = ExampleFragments =>
                /\ Len(res.allGroups) = 1
                /\ res.allGroups[1].score = 14500
                /\ res.score = "14.500"

\* the example list has been assembled
C12_Witness ==
    /\ assemblerCall.allCandidates = ExampleFragments
    /\ \E res \in Returned : res.agentCount = 2 /\ res.roundCount = 2 /\ res.avgEntropy = "2.500"

\* C13: the assembler partitions the fragment list by grouping key: every
\* call returns groups such that every fragment is in exactly one of them,
\* two fragments are in the same group exactly if the first 100 characters
\* of their texts are equal, and a group keeps its fragments in their order
\* in the list.
C13_PartitionByKey ==
    LET frags == assemblerCall.allCandidates
    IN  \A k \in DOMAIN assemblerCall.returned :
            LET res == assemblerCall.returned[k]
            IN  /\ ~Threw(res)
                /\ \A i \in DOMAIN frags :
                    Cardinality({g \in DOMAIN res.allGroups :
                        \E c \in DOMAIN res.allGroups[g].candidates : res.allGroups[g].candidates[c] = frags[i]}) = 1
                /\ \A g \in DOMAIN res.allGroups :
                    \E i \in DOMAIN frags :
                        res.allGroups[g].candidates = [c \in 1..Cardinality(Members(frags, i)) |->
                            frags[CHOOSE j \in Members(frags, i) :
                                    Cardinality({h \in Members(frags, i) : h <= j}) = c]]

\* C14: rootAgent and rootEntropy are the agent id and the entropy of the
\* highest-entropy fragment of the winning group, the earliest-inserted one
\* when several share the maximum.
C14_RootIsHighestEntropy ==
    LET frags == assemblerCall.allCandidates
    IN  \A res \in Returned :
            frags # <<>> =>
                LET m    == {j \in DOMAIN frags : Substring(frags[j].candidate, 0, 100) = res.allGroups[1].key}
                    top  == {j \in m : \A h \in m : frags[j].entropy >= frags[h].entropy}
                    root == CHOOSE j \in top : \A h \in top : j <= h
                IN  /\ res.rootAgent = frags[root].agentId
                    /\ res.rootEntropy = toFixed3(frags[root].entropy)

\* a result whose root fragment is not the fragment whose text was selected
C14_Witness ==
    LET frags == assemblerCall.allCandidates
    IN  /\ Len(frags) = 2
        /\ Members(frags, 1) = {1, 2}
        /\ frags[1].agentId # frags[2].agentId
        /\ frags[1].candidate # frags[2].candidate
        /\ \E res \in Returned :
            /\ res.rootAgent = frags[2].agentId
            /\ res.rootEntropy = "3.000"
            /\ res.selectedCandidate = frags[1].candidate

\* the position at which the key of a group was first seen in the list
FirstSeenAt(frags, key) ==
    CHOOSE i \in DOMAIN frags :
        /\ Substring(frags[i].candidate, 0, 100) = key
        /\ \A j \in 1..(i - 1) : Substring(frags[j].candidate, 0, 100) # key

\* C15: groups of equal score are ranked in the order in which their keys
\* were first seen in the fragment list, whatever the text of the keys.
C15_TiesByFirstSeen ==
    LET frags == assemblerCall.allCandidates
    IN  \A res \in Returned :
            \A p, q \in DOMAIN res.allGroups :
                (p < q /\ res.allGroups[p].score = res.allGroups[q].score)
                    => FirstSeenAt(frags, res.allGroups[p].key) < FirstSeenAt(frags, res.allGroups[q].key)

C17_EmptyListSentinel ==
    assemblerCall.allCandidates = <<>> =>
        \A k \in DOMAIN assemblerCall.returned :
            assemblerCall.returned[k] =
                [genesis |-> assemblerCall.genesis,
                 selectedCandidate |-> "// No valid candidates were generated by the agents.",
                 score |-> "0", avgEntropy |-> "0", rootEntropy |-> "0",
                 agentCount |-> 0, roundCount |-> 0, rootAgent |-> "N/A", allGroups |-> <<>>]

\* the assembler has been called on the empty list
C17_Witness ==
    /\ assemblerCall.allCandidates = <<>>
    /\ assemblerCall.genesis # ""
    /\ assemblerCall.returned # <<>>

(***************************************************************************)
(* Properties of the rounds and of the entry points.                       *)
(***************************************************************************)
\* agent a's step of invocation r completes in this step: its fragment is collected
Completes(r, a) ==
    /\ a \in DOMAIN runs[r].step
    /\ runs[r].step[a] \in {"simulating", "calling"}
    /\ a \in DOMAIN runs'[r].step
    /\ runs'[r].step[a] = "done"

\* the rounds of the fragments of a list never decrease along the list
RoundsInOrder(frags) == \A i, j \in DOMAIN frags : i < j => frags[i].round <= frags[j].round

\* C18: within a round, fragments enter the accumulator in the order in
\* which the agents' steps complete (the fragment of the step that completes
\* is put last), not in agent-index order; the fragments of round k all
\* precede the fragments of round k+1.
C18_CompletionOrder ==
    [][\A r \in RunIds :
            /\ RoundsInOrder(runs'[r].allCandidates)
            /\ \A a \in AgentIndex :
                Completes(r, a) =>
                    /\ Len(runs'[r].allCandidates) = Len(runs[r].allCandidates) + 1
                    /\ SubSeq(runs'[r].allCandidates, 1, Len(runs[r].allCandidates)) = runs[r].allCandidates
                    /\ runs'[r].allCandidates[Len(runs'[r].allCandidates)].agentId = runs[r].agents[a].id
                    /\ runs'[r].allCandidates[Len(runs'[r].allCandidates)].round = runs[r].round]_vars

\* the second agent's fragment of a round precedes the first agent's, and
\* the fragments of the next round follow both
C18_Witness ==
    \E r \in RunIds :
        /\ Len(runs[r].allCandidates) >= 3
        /\ runs[r].allCandidates[1].agentId = "agent-1"
        /\ runs[r].allCandidates[2].agentId = "agent-0"
        /\ runs[r].allCandidates[2].round = 0
        /\ runs[r].allCandidates[3].round = 1

RECURSIVE OriginsOfRounds(_, _, _)
\* the origins an agent uses in rounds 0..k, in order, from the origin it was
\* seeded with and the genesis hash alone
OriginsOfRounds(seed, genesisHash, k) ==
    IF k < 0 THEN <<>>
    ELSE LET before == OriginsOfRounds(seed, genesisHash, k - 1)
             last   == IF k = 0 THEN seed ELSE before[k]
         IN  Append(before, sha256(last \o genesisHash \o ToString(k)))

\* the origin agent a of an invocation was seeded with
SeedOrigin(run, a) ==
    generateFractalHash(run.genesisHash \o run.agents[a].id, DEFAULT_REASONING_DEPTH, run.startedAt)

\* agent a of invocation r rotates its origin in this step
Rotates(r, a) ==
    /\ a \in DOMAIN runs[r].step
    /\ runs[r].step[a] = "hashing"
    /\ a \in DOMAIN runs'[r].step
    /\ runs'[r].step[a] # "hashing"

\* C19: for every agent, the origin used in round k+1 is a function of the
\* origin used in round k, the genesis hash and the round number only: the
\* origin an agent takes for a round follows from the genesis and its seed
\* origin alone, no step other than its own rotation changes it, whatever
\* the other agents' steps do, and a fragment carries the origin its agent
\* has for the round.
C19_OriginRotation ==
    [][\A r \in RunIds : \A a \in AgentIndex :
            /\ Rotates(r, a) =>
                runs'[r].agents[a].origin =
                    OriginsOfRounds(SeedOrigin(runs[r], a), runs[r].genesisHash, runs[r].round)[runs[r].round + 1]
            /\ (a \in DOMAIN runs[r].agents /\ a \in DOMAIN runs'[r].agents
                    /\ runs'[r].agents[a].origin # runs[r].agents[a].origin) => Rotates(r, a)
            /\ (Completes(r, a) /\ runs'[r].allCandidates # <<>>) =>
                runs'[r].allCandidates[Len(runs'[r].allCandidates)].origin = runs[r].agents[a].origin]_vars

\* in its second round an agent has rotated its origin while the other
\* agent has not yet
C19_Witness ==
    \E r \in RunIds :
        /\ runs[r].pc = "round"
        /\ runs[r].round = 1
        /\ \E a, b \in DOMAIN runs[r].step :
            /\ runs[r].step[a] = "hashing"
            /\ runs[r].step[b] \in {"simulating", "calling", "done"}
            /\ runs[r].agents[b].origin # runs[r].agents[a].origin

\* C20: while multiAgentMode is false no entry point of the UI starts an
\* orchestration run.
C20_NoRunInSingleAgentMode ==
    [][runCount' > runCount => settings.multiAgentMode]_vars

\* C21: whenever the consensus result shown by the panel is not null, no run
\* is between its start and its finalizer: the result field is cleared at
\* the start of a run and published only as the run's last step.
C21_ResultOnlyBetweenRuns ==
    consensusResult # <<>> => \A r \in RunIds : ~InProgress(r)

\* C28: from the start of a run until its finalizer the in-progress flag
\* stays true: no other operation of the session (completion of a
\* single-agent request, a settings change, closing the panel) clears it.
C28_FlagHeldDuringRun ==
    \A r \in RunIds : InProgress(r) => isGenerating

\* the agents whose fragments a candidate group holds
AgentsOf(group) == {group.candidates[i].agentId : i \in DOMAIN group.candidates}

\* C29: in every run, connected or offline, every candidate group of the
\* published result holds fragments of exactly one agent (the first 100
\* characters of a fragment of the step runner name its agent), so
\* agentCount is 1 for every group and rootAgent is the agent that produced
\* selectedCandidate.
C29_GroupsOfOneAgent ==
    consensusResult # <<>> =>
        LET res == consensusResult[1]
        IN  /\ \A g \in DOMAIN res.allGroups :
                    /\ res.allGroups[g].agentCount = 1
                    /\ Cardinality(AgentsOf(res.allGroups[g])) = 1
            /\ \A g \in DOMAIN res.allGroups : \A i \in DOMAIN res.allGroups[g].candidates :
                    res.allGroups[g].candidates[i].candidate = res.selectedCandidate
                        => res.allGroups[g].candidates[i].agentId = res.rootAgent
            /\ res.allGroups # <<>> => res.rootAgent \in AgentsOf(res.allGroups[1])

\* a result of an offline run of two rounds is shown: two groups, each
\* holding the two fragments of one agent
C29_Witness ==
    /\ consensusResult # <<>>
    /\ Len(consensusResult[1].allGroups) = 2
    /\ \A g \in DOMAIN consensusResult[1].allGroups : Len(consensusResult[1].allGroups[g].candidates) = 2
    /\ Includes(consensusResult[1].selectedCandidate, "SIMULATED")

\* log a is an initial part of log b: nothing removed, reordered or rewritten
IsPrefix(a, b) == Len(a) <= Len(b) /\ SubSeq(b, 1, Len(a)) = a

\* the entry a run writes in the task that starts it
FirstEntry == [message |-> "Generating genesis hash from current code...", type |-> "genesis"]

\* C23: every agent's log is empty at the start of a run (the step that
\* starts a run leaves nothing but the run's own first entry), and from then
\* until the next run's start every operation only appends to it.
C23_LogsAppendOnly ==
    [][IF runCount' > runCount
       THEN \A t \in AgentType : agents'[t].log = IF t = "nexus" THEN <<FirstEntry>> ELSE <<>>
       ELSE \A t \in AgentType : IsPrefix(agents[t].log, agents'[t].log)]_vars

\* a second run has started after a first one filled the logs, and its own
\* entries have been appended since
C23_Witness ==
    /\ runCount = 2
    /\ Len(agents["nexus"].log) >= 3
    /\ agents["nexus"].log[1] = FirstEntry
    /\ Len(agents["sentinel"].log) >= 2

\* this step seeds the agents of invocation r
Seeds(r) == runs[r].pc = "genesis" /\ runs'[r].pc = "round"

\* agents a and b of a run have rotated their origins equally often
SameRotation(run, a, b) ==
    /\ a \in DOMAIN run.step
    /\ b \in DOMAIN run.step
    /\ (run.step[a] = "hashing") = (run.step[b] = "hashing")

\* C30: the initial origin depends only on the first 12 characters of the
\* seed and on depth (neither the agent id at the end of the seed nor the
\* time of the call changes it), so within a run all agents receive the same
\* initial origin, hold the same origin after every round's rotation, and
\* all fragments of one round carry the same origin and entropy.
C30_SharedOrigins ==
    /\ [][\A r \in RunIds : Seeds(r) =>
            \A a \in DOMAIN runs'[r].agents :
                runs'[r].agents[a].origin =
                    generateFractalHash(Substring(runs'[r].genesisHash, 0, 12), DEFAULT_REASONING_DEPTH, 0)]_vars
    /\ [](\A r \in RunIds :
            /\ \A a, b \in DOMAIN runs[r].agents :
                    SameRotation(runs[r], a, b) => runs[r].agents[a].origin = runs[r].agents[b].origin
            /\ \A i, j \in DOMAIN runs[r].allCandidates :
                    runs[r].allCandidates[i].round = runs[r].allCandidates[j].round
                        => /\ runs[r].allCandidates[i].origin = runs[r].allCandidates[j].origin
                           /\ runs[r].allCandidates[i].entropy = runs[r].allCandidates[j].entropy)

\* in the second round of a run both agents have rotated their origins, and
\* the fragments of the first round and one of the second are collected
C30_Witness ==
    \E r \in RunIds :
        /\ runs[r].pc = "round"
        /\ runs[r].round = 1
        /\ Len(runs[r].agents) = 2
        /\ \A a \in DOMAIN runs[r].step : runs[r].step[a] # "hashing"
        /\ runs[r].agents[1].origin = runs[r].agents[2].origin
        /\ Len(runs[r].allCandidates) = 3

\* the values the calls of helper fn have returned so far
ReturnedBy(fn) ==
    IF helperCall.fn = fn THEN {helperCall.returned[k] : k \in DOMAIN helperCall.returned} ELSE {}

\* C24: generateFractalHash is deterministic for a fixed seed and depth: two
\* calls with the same seed and the same depth return the same string, also
\* when they are made at different times.
C24_FractalHashDeterministic ==
    \A x, y \in ReturnedBy("generateFractalHash") : x.value = y.value

\* C25: for every seed and every depth in 1..5 the string returned by
\* generateFractalHash has exactly 32 characters.
C25_FractalHashLength ==
    \A x \in ReturnedBy("generateFractalHash") : Len(x.value) = 32

\* hash consists of one character repeated, or is empty
SingleSymbol(hash) == \A i, j \in 1..Len(hash) : CharAt(hash, i) = CharAt(hash, j)

\* C27: calculateEntropy(s) >= 0 for every string s; the entropy of the
\* empty string is 0, the entropy of a string over a single symbol ("aaaa")
\* is 0, and the entropy of "ab" is 1.0.
C27_EntropyValues ==
    \A x \in ReturnedBy("calculateEntropy") :
        /\ x.value >= 0
        /\ helperCall.text = "" => x.value = 0
        /\ helperCall.text = "aaaa" => x.value = 0
        /\ SingleSymbol(helperCall.text) => x.value = 0
        /\ helperCall.text = "ab" => x.value = 1000

\* calculateEntropy has returned for "ab", two symbols of equal frequency
C27_Witness ==
    /\ helperCall.text = "ab"
    /\ \E x \in ReturnedBy("calculateEntropy") : x.value = 1000

\* C26: the session cache has size-bounded eviction: after any sequence of
\* store operations, once a store has returned, the persisted cache holds at
\* most CACHE_LIMIT (100) entries.
C26_CacheBounded ==
    storeCalls.returned # <<>> => Len(persistedCache) <= CACHE_LIMIT

\* the ranges of the configuration
InRange(st) ==
    /\ st.agentCount >= 2 /\ st.agentCount <= 8
    /\ st.maxRounds >= 1 /\ st.maxRounds <= 10
    /\ st.reasoningDepth >= 1 /\ st.reasoningDepth <= 5

\* C22: every run is started with 2 <= agentCount <= 8, 1 <= maxRounds <= 10
\* and 1 <= reasoningDepth <= 5: a value outside these ranges entered in the
\* settings panel or loaded from stored settings is rejected or clamped
\* before any run uses it.
C22_RunsStartInRange ==
    [][\A r \in RunIds : (runs[r].pc = "idle" /\ runs'[r].pc = "genesis") => InRange(runs'[r])]_vars

\* the fragment a step has just put into the accumulator of invocation r
LastFragment(r) == runs'[r].allCandidates[Len(runs'[r].allCandidates)]

\* C31: each fragment of agent a in round k records as origin the value a's
\* origin was rotated to in round k (the digest of its previous origin, the
\* genesis hash and k), and its entropy is the entropy of that new origin,
\* also when the steps of other agents interleave with a's step.
C31_FragmentOfNewOrigin ==
    [][\A r \in RunIds : \A a \in AgentIndex :
            (Completes(r, a) /\ runs'[r].allCandidates # <<>>) =>
                /\ LastFragment(r).agentId = runs[r].agents[a].id
                /\ LastFragment(r).round = runs[r].round
                /\ LastFragment(r).origin =
                        OriginsOfRounds(SeedOrigin(runs[r], a), runs[r].genesisHash, runs[r].round)[runs[r].round + 1]
                /\ LastFragment(r).entropy = calculateEntropy(LastFragment(r).origin)]_vars

\* in the second round the step of one agent has completed, its fragment
\* put last, while the other agent has not yet rotated its origin
C31_Witness ==
    \E r \in RunIds :
        /\ runs[r].pc = "round"
        /\ runs[r].round = 1
        /\ Len(runs[r].allCandidates) = 3
        /\ \E a, b \in DOMAIN runs[r].step :
            /\ runs[r].step[a] = "done"
            /\ runs[r].step[b] = "hashing"
            /\ runs[r].allCandidates[3].agentId = runs[r].agents[a].id
            /\ runs[r].allCandidates[3].origin = runs[r].agents[a].origin
            /\ runs[r].allCandidates[3].origin # runs[r].agents[b].origin

\* C32: agent seeding creates exactly agentCount agents with the ids agent-0
\* .. agent-(agentCount-1) before round 0 starts, each with the initial
\* origin generateFractalHash(genesisHash + agentId, reasoningDepth), where
\* reasoningDepth is the configured value.
C32_SeededWithConfiguredDepth ==
    [][\A r \in RunIds : Seeds(r) =>
            /\ Len(runs'[r].agents) = runs[r].agentCount
            /\ \A i \in DOMAIN runs'[r].agents :
                /\ runs'[r].agents[i].id = "agent-" \o ToString(i - 1)
                /\ runs'[r].agents[i].origin =
                        generateFractalHash(runs'[r].genesisHash \o runs'[r].agents[i].id,
                                            runs[r].reasoningDepth, runs[r].startedAt)]_vars

\* the grouping keys of the fragments of a list
KeysOf(frags) == {GroupKey(frags[i]) : i \in DOMAIN frags}

\* C33: in every non-sentinel consensus result allGroups contains every
\* group exactly once, in non-increasing order of score, and the result's
\* score, agentCount, roundCount and avgEntropy are those of the first group
\* of allGroups.
C33_AllGroupsSorted ==
    LET frags == assemblerCall.allCandidates
    IN  \A res \in Returned :
            frags # <<>> =>
                LET groups == res.allGroups
                IN  /\ {groups[g].key : g \in DOMAIN groups} = KeysOf(frags)
                    /\ Len(groups) = Cardinality(KeysOf(frags))
                    /\ \A g, h \in DOMAIN groups : g < h => groups[g].score >= groups[h].score
                    /\ res.score = toFixed3(groups[1].score)
                    /\ res.agentCount = groups[1].agentCount
                    /\ res.roundCount = groups[1].roundCount
                    /\ res.avgEntropy = toFixed3(groups[1].avgEntropy)

\* a result of three groups whose scores are not all equal, for a list in
\* which the group of the highest score was not seen first
C33_Witness ==
    LET frags == assemblerCall.allCandidates
    IN  /\ Len(frags) = 3
        /\ \E res \in Returned :
            /\ Len(res.allGroups) = 3
            /\ res.allGroups[1].score > res.allGroups[3].score
            /\ res.allGroups[1].key # GroupKey(frags[1])

\* the marker put between the two halves of a truncated context
TruncationMarker == "\n\n// ... [CODE TRUNCATED FOR BREVITY] ...\n\n"

\* C34: the step runner passes an editor context of at most maxLength (8000)
\* characters unchanged, and replaces a longer one by its first maxLength/2
\* characters, the truncation marker, and its last maxLength/2 characters,
\* in that order.
C34_ContextTruncation ==
    \A x \in ReturnedBy("truncatedContext") :
        LET context == helperCall.text
            n       == Len(context)
        IN  IF n <= 8000
            THEN x.value = context
            ELSE /\ Len(x.value) = 8000 + Len(TruncationMarker)
                 /\ SubSeq(x.value, 1, 4000) = SubSeq(context, 1, 4000)
                 /\ SubSeq(x.value, 4001, 4000 + Len(TruncationMarker)) = TruncationMarker
                 /\ SubSeq(x.value, 4001 + Len(TruncationMarker), Len(x.value)) = SubSeq(context, n - 3999, n)

\* a context of 8001 characters has been truncated: the character in its
\* middle is gone
C34_Witness ==
    /\ Len(helperCall.text) = 8001
    /\ \E x \in ReturnedBy("truncatedContext") : Len(x.value) > 8001 /\ ~Includes(x.value, "|")

\* C35: undo after a committed edit that changed the content from A to B
\* restores A, redo after that undo restores B, and the history stack is
\* never empty and never holds more than MAX_HISTORY_SIZE entries.
C35_UndoRedoRoundTrip ==
    /\ Len(historyStack) \in 1..MAX_HISTORY_SIZE
    /\ \A n \in 2..Len(editorOps) :
        (/\ editorOps[n - 1].op = "edit"
         /\ editorOps[n - 1].before # editorOps[n - 1].text
         /\ editorOps[n].op = "undo")
        => /\ editorOps[n].text = editorOps[n - 1].before
           /\ (n < Len(editorOps) /\ editorOps[n + 1].op = "redo")
              => editorOps[n + 1].text = editorOps[n - 1].text

\* C36: store and retrieve round-trip: after store(key, d) has returned,
\* whether with true or with false, retrieve(key) returns d, the latest
\* value stored under key, when no cleanup ran in between.
C36_StoreRetrieveRoundTrip ==
    (/\ storeCalls.returned # <<>>
     /\ storeCalls.retrieved # <<>>
     /\ storeCalls.retrieved[1].key = storeCalls.key)
    => storeCalls.retrieved[1].value = <<storeCalls.data>>

\* the body of a response of the form fence, optional language tag, newline,
\* body, newline, fence (white space around it set aside), or <<>> for a
\* response of another form
FencedBody(response) ==
    LET t == Trim(response)
        n == Len(t)
        newlines == {i \in 4..n : CharAt(t, i) = "\n"}
        first == CHOOSE i \in newlines : \A j \in newlines : i <= j
    IN  IF /\ n >= 8
           /\ SubSeq(t, 1, 3) = Fence
           /\ SubSeq(t, n - 3, n) = "\n" \o Fence
           /\ newlines # {}
           /\ first <= n - 4
           /\ \A j \in 4..(first - 1) : IsWordChar(CharAt(t, j))
        THEN <<SubSeq(t, first + 1, n - 4)>>
        ELSE <<>>

\* C37: stripCodeBlock returns just the body of every response of the form
\* fence, optional language tag, newline, body, newline, fence, an empty
\* body and a body of white space included, and the trimmed raw response
\* for every other response.
C37_StripCodeBlock ==
    \A x \in ReturnedBy("stripCodeBlock") :
        LET body == FencedBody(helperCall.text)
        IN  IF body # <<>> THEN x.value = Trim(body[1])
            ELSE x.value = Trim(helperCall.text)

\* C38: after any sequence of addRecentFile calls the recent files are at
\* most 10, no two of them have the same filename, and the file added last
\* is the first of them.
C38_RecentFiles ==
    /\ Len(recentFiles) <= 10
    /\ \A i, j \in DOMAIN recentFiles : recentFiles[i].filename = recentFiles[j].filename => i = j
    /\ recentCalls.count > 0 => /\ recentFiles # <<>>
                                /\ recentFiles[1].filename = recentCalls.filename

\* eleven files or more have been added, the last of them a file that was
\* in the list already: the list is full and starts with that file
C38_Witness ==
    /\ recentCalls.count >= 11
    /\ Len(recentFiles) = 10
    /\ recentCalls.filename = "index.html"
    /\ recentFiles[1].filename = "index.html"
    /\ \E i \in 2..10 : recentFiles[i].timestamp < recentFiles[i - 1].timestamp - 1

====
